---- MODULE Spec2Model ----
(***************************************************************************)
(* State-machine model of the route-map renderer (map_generator.py) and    *)
(* its collaborators.                                                      *)
(*                                                                         *)
(* Numbers.  Python floats are modelled by exact integers in fixed units:  *)
(*   - geographic coordinates and label offsets: milli-degrees             *)
(*     (1.0 degree = 1000); every coordinate of the model is a whole       *)
(*     number of degrees, so span * factor is exact;                       *)
(*   - margin factors: per-mille (0.15 = 150); curve strength: per-cent;   *)
(*   - figure sizes: tenths of a millimetre, i.e. 1 inch = 254, so that    *)
(*     width_mm / MM_PER_INCH is exact.                                    *)
(* None is modelled by NoneStr for strings and by <<>> for numbers, a      *)
(* present number v by <<v>>.                                              *)
(***************************************************************************)
EXTENDS Integers, Sequences, FiniteSets, TLC

VARIABLES
    gen,              \* the generator instance (self)
    route,            \* argument route of generate_map
    output_file,      \* argument output_file: NoneStr or a path
    label_overrides,  \* argument label_overrides: function name -> [dx, dy]
    render_labels,    \* argument render_labels
    hidden_labels,    \* argument hidden_labels: set of names
    outcome,          \* "ready", "returned", "returned_none", or the exception raised
    map_info,         \* the dictionary generate_map returned
    ax,               \* what was drawn on the axes: lines, points, texts, limits
    open_figures,     \* number of pyplot figures created and not closed
    saved_files,      \* set of paths written by savefig
    curve_call,       \* arguments of a direct _build_curve call
    curve,            \* what that call returned
    place_pc,         \* _place_labels_with_collision_avoidance: "idle", "loop", "final", "done"
    label_entries,    \* its label_entries
    passes,           \* relaxation passes started so far
    place_result,     \* the list it returned
    border_shapes_cache, \* self._border_shapes_cache: NoNum (None) or Some(shapes)
    border_error,     \* self._border_error: NoneStr or the exception recorded
    fetches,          \* requests.get calls made for the border dataset
    printed,          \* warnings printed on the console
    files,            \* the asset files that exist on disk
    calls,            \* generate_map calls finished on this generator
    prev_call,        \* outcome, result and render_labels of the call before
    store,            \* the file label_overrides.json: absent, unreadable or a mapping
    store_writable,   \* whether the file can be written (FALSE: read-only file system)
    store_log,        \* number of "Could not save label overrides" warnings logged
    last_op,          \* the last override-store operation: its name, arguments and result
    request,          \* the request the web handler is answering
    response,         \* the response it sent
    geo_lookups,      \* the geocoder.get_coordinates calls made for that request
    renders,          \* generate_map calls started by the web handlers so far
    sig_call,         \* arguments of a direct _apply_signature call: canvas and image sizes
    sig_box,          \* the box of the signature info it returned
    callers,          \* concurrent set_override callers: position, arguments, data loaded
    geocoding,        \* a Geocoder.get_coordinates call: candidates, attempts, lookups, result
    storage           \* a StorageManager: its route, the route file, the lists it returned

vars == <<gen, route, output_file, label_overrides, render_labels, hidden_labels,
          outcome, map_info, ax, open_figures, saved_files, curve_call, curve,
          place_pc, label_entries, passes, place_result,
          border_shapes_cache, border_error, fetches, printed, files, calls, prev_call,
          store, store_writable, store_log, last_op, request, response, geo_lookups,
          renders, sig_call, sig_box, callers, geocoding, storage>>
sigVars == <<sig_call, sig_box>>
auxVars == <<sigVars, callers, geocoding, storage>>
sessionVars == <<border_shapes_cache, border_error, fetches, printed, files, calls,
                 prev_call>>
placeVars == <<place_pc, label_entries, passes, place_result>>
renderVars == <<gen, route, output_file, label_overrides, render_labels, hidden_labels,
                outcome, map_info, ax, open_figures, saved_files>>
curveVars == <<curve_call, curve>>
storeVars == <<store, store_writable, store_log, last_op>>
webVars == <<request, response, geo_lookups, renders>>
appVars == <<storeVars, webVars>>

NoneStr == "None"
NoNum == <<>>
Some(v) == <<v>>
IsNone(x) == x = NoNum
Val(x) == x[1]

Max2(a, b) == IF a >= b THEN a ELSE b
Min2(a, b) == IF a <= b THEN a ELSE b
SeqToSet(s) == {s[i] : i \in 1..Len(s)}
SetMax(S) == CHOOSE x \in S : \A y \in S : y <= x
SetMin(S) == CHOOSE x \in S : \A y \in S : x <= y

(***************************************************************************)
(* MapGenerator.PAPER_FORMATS and the class constants                      *)
(***************************************************************************)
PAPER_FORMATS ==
    ( "A4"            :> [width_mm |-> 210,  height_mm |-> 297]
   @@ "A3"            :> [width_mm |-> 297,  height_mm |-> 420]
   @@ "POSTER_50X70"  :> [width_mm |-> 500,  height_mm |-> 700]
   @@ "POSTER_70X50"  :> [width_mm |-> 700,  height_mm |-> 500]
   @@ "POSTER_60X100" :> [width_mm |-> 600,  height_mm |-> 1000]
   @@ "POSTER_100X60" :> [width_mm |-> 1000, height_mm |-> 600]
   @@ "SQUARE"        :> [width_mm |-> 500,  height_mm |-> 500]
   @@ "RECTANGLE_3X2" :> [width_mm |-> 600,  height_mm |-> 400]
   @@ "POSTCARD"      :> [width_mm |-> 100,  height_mm |-> 150] )

\* width_mm / MM_PER_INCH, in units of 1/254 inch
MmToInch(mm) == mm * 10

PosterClasses == {"PosterMapGenerator", "LandscapePosterMapGenerator",
                  "LargePosterMapGenerator", "LandscapeLargePosterMapGenerator"}
GeneratorClasses == {"MapGenerator"} \cup PosterClasses

FORMAT_ID(cls) ==
    CASE cls = "PosterMapGenerator"               -> "POSTER_50X70"
      [] cls = "LandscapePosterMapGenerator"      -> "POSTER_70X50"
      [] cls = "LargePosterMapGenerator"          -> "POSTER_60X100"
      [] cls = "LandscapeLargePosterMapGenerator" -> "POSTER_100X60"

\* poster_margin_vertical / poster_margin_horizontal set by the poster constructors
PosterMarginVertical(cls) == 50
PosterMarginHorizontal(cls) ==
    IF cls \in {"PosterMapGenerator", "LargePosterMapGenerator"} THEN 80 ELSE 60

\* max_margin_factor (per-mille) and curve_strength (per-cent) defaults of the posters
PosterMaxMarginFactor(cls) ==
    IF cls \in {"PosterMapGenerator", "LargePosterMapGenerator"} THEN 60 ELSE 55
PosterCurveStrength(cls) ==
    IF cls \in {"PosterMapGenerator", "LargePosterMapGenerator"} THEN 32 ELSE 30

\* kwargs.get(key, default) on a record of keyword arguments
KwGet(kw, key, default) == IF key \in DOMAIN kw THEN kw[key] ELSE default

(***************************************************************************)
(* MapGenerator.__init__ : the fields of self that generate_map reads.     *)
(***************************************************************************)
DefaultSignature == "static/signature/signature.png"

MapGeneratorInit(cls, kw, fs) ==
    [ cls                        |-> cls,
      figsize                    |-> KwGet(kw, "figsize", <<12 * 254, 8 * 254>>),
      min_margin_deg             |-> KwGet(kw, "min_margin_deg", 1000),
      margin_factor              |-> KwGet(kw, "max_margin_factor", 150),
      curve_strength             |-> KwGet(kw, "curve_strength", 25),
      paper_format               |-> KwGet(kw, "paper_format", NoneStr),
      dpi                        |-> KwGet(kw, "dpi", 300),
      show_borders               |-> KwGet(kw, "show_borders", FALSE),
      signature_enabled          |-> KwGet(kw, "signature_enabled", FALSE),
      \* the path given, else the default asset when it exists, else None
      signature_path             |->
          IF KwGet(kw, "signature_path", NoneStr) # NoneStr THEN kw.signature_path
          ELSE IF DefaultSignature \in fs THEN DefaultSignature ELSE NoneStr,
      signature_position         |-> KwGet(kw, "signature_position", "bottom_right"),
      \* max(0.02, min(scale, 0.5)), 0.18 when not given, in per-mille
      signature_scale            |->
          Max2(20, Min2(IF KwGet(kw, "signature_scale", NoNum) # NoNum
                        THEN kw.signature_scale[1] ELSE 180, 500)),
      merge_bidirectional_routes |-> KwGet(kw, "merge_bidirectional_routes", FALSE),
      lock_paper_orientation     |-> KwGet(kw, "lock_paper_orientation", FALSE) ]

\* kwargs.setdefault(key, value)
SetDefault(kw, key, value) == IF key \in DOMAIN kw THEN kw ELSE kw @@ (key :> value)

\* The four poster constructors: defaults for the keyword arguments, then super().__init__
PosterInit(cls, kw, fs) ==
    LET spec == PAPER_FORMATS[FORMAT_ID(cls)]
        k1 == SetDefault(kw, "figsize",
                         <<MmToInch(spec.width_mm), MmToInch(spec.height_mm)>>)
        k2 == SetDefault(k1, "paper_format", FORMAT_ID(cls))
        k3 == SetDefault(k2, "min_margin_deg", 30)
        k4 == SetDefault(k3, "max_margin_factor", PosterMaxMarginFactor(cls))
        k5 == SetDefault(k4, "curve_strength", PosterCurveStrength(cls))
        k6 == SetDefault(k5, "lock_paper_orientation", TRUE)
    IN  MapGeneratorInit(cls, k6, fs)

NewGenerator(cls, kw, fs) ==
    IF cls = "MapGenerator" THEN MapGeneratorInit(cls, kw, fs) ELSE PosterInit(cls, kw, fs)

(***************************************************************************)
(* Margin policy                                                           *)
(***************************************************************************)
\* _margin_factor_lat / _margin_factor_lon, per-mille
margin_factor_lat(self) ==
    IF self.cls \in PosterClasses THEN PosterMarginVertical(self.cls)
    ELSE IF self.paper_format = "POSTCARD" THEN (self.margin_factor * 5) \div 10
    ELSE self.margin_factor

margin_factor_lon(self) ==
    IF self.cls \in PosterClasses THEN PosterMarginHorizontal(self.cls)
    ELSE IF self.paper_format = "POSTCARD" THEN (self.margin_factor * 5) \div 10
    ELSE self.margin_factor

\* span * factor with factor in per-mille
Scale(span, permille) == (span * permille) \div 1000

(***************************************************************************)
(* MapGenerator._build_curve                                               *)
(*                                                                         *)
(* perpendicular is normalised by its norm and base_offset is              *)
(* curve_strength * |direction|; the two norms are equal, so               *)
(*   control_point = mid_point + (-direction[1], direction[0]) * factor,   *)
(*   factor = base_offset / |direction|.                                   *)
(* The model keeps factor as the integer base_offset_num over OffsetDen    *)
(* (curve_strength in per-cent, 0.18 = 18/100, the multiplier in halves),  *)
(* the control point over OffsetDen, and a sample at t = i / (Samples - 1) *)
(* over SampleDen.                                                         *)
(***************************************************************************)
Samples == 50
OffsetDen == 100 * 100 * 2
SampleDen == (Samples - 1) * (Samples - 1) * OffsetDen

VAdd(u, v) == <<u[1] + v[1], u[2] + v[2]>>
VSub(u, v) == <<u[1] - v[1], u[2] - v[2]>>
VMul(k, v) == <<k * v[1], k * v[2]>>
Dot(u, v) == u[1] * v[1] + u[2] * v[2]
Cross(u, v) == u[1] * v[2] - u[2] * v[1]

\* a bundle fanned around (total_occurrences / 2) instead of ((total_occurrences - 1) / 2)
BaseOffsetNumOffCentre(self, occurrence_idx, total_occurrences) ==
    IF total_occurrences > 1
    THEN self.curve_strength * 100 * 2
         + (2 * occurrence_idx - total_occurrences) * (18 * self.curve_strength)
    ELSE self.curve_strength * 100 * 2

\* base_offset / |direction| * OffsetDen
BaseOffsetNum(self, occurrence_idx, total_occurrences) ==
    LET base_offset == self.curve_strength * 100 * 2
        offset_step == 18 * self.curve_strength
        \* occurrence_idx - (total_occurrences - 1) / 2, in halves
        offset_multiplier2 == 2 * occurrence_idx - (total_occurrences - 1)
    IN  IF total_occurrences > 1
        THEN base_offset + offset_multiplier2 * offset_step
        ELSE base_offset

\* the direction with its components swapped, not rotated
PerpendicularSwapped(direction) == <<direction[2], direction[1]>>

\* perpendicular, before it is divided by its norm
Perpendicular(direction) == <<-direction[2], direction[1]>>

\* the absolute tolerance of np.allclose, 1e-8: the unit of the points of a direct
\* _build_curve call
AllcloseAtol == 1

\* direction compared with 0 exactly
exactly_zero(direction) == direction = <<0, 0>>

\* np.allclose(direction, 0): |component| <= atol + rtol * |0| for both components
allclose_zero(direction) ==
    /\ direction[1] <= AllcloseAtol /\ -direction[1] <= AllcloseAtol
    /\ direction[2] <= AllcloseAtol /\ -direction[2] <= AllcloseAtol

build_curve(self, start, end, occurrence_idx, total_occurrences) ==
    LET direction == VSub(end, start)
    IN  IF allclose_zero(direction)
        THEN [degenerate |-> TRUE, base_offset_num |-> 0, control_point |-> <<0, 0>>,
              points |-> <<VMul(SampleDen, start), VMul(SampleDen, end)>>]
        ELSE
        LET mid_point2 == VAdd(start, end)
            perpendicular == Perpendicular(direction)
            base_offset_num == BaseOffsetNum(self, occurrence_idx, total_occurrences)
            \* control_point * OffsetDen
            control_point == VAdd(VMul(OffsetDen \div 2, mid_point2),
                                  VMul(base_offset_num, perpendicular))
            n == Samples - 1
        IN  [degenerate |-> FALSE, base_offset_num |-> base_offset_num,
             control_point |-> control_point,
             points |-> [k \in 1..Samples |->
                LET i == k - 1
                IN  VAdd(VAdd(VMul((n - i) * (n - i) * OffsetDen, start),
                              VMul(2 * (n - i) * i, control_point)),
                         VMul(i * i * OffsetDen, end))]]

NoCurveCall == [start |-> <<0, 0>>, end |-> <<0, 0>>, occurrence_idx |-> 0,
                total_occurrences |-> 0]
NoCurve == [degenerate |-> TRUE, base_offset_num |-> 0, control_point |-> <<0, 0>>,
            points |-> <<>>]

\* self._build_curve(start, end, occurrence_idx, total_occurrences)
BuildCurve ==
    /\ curve = NoCurve
    /\ curve_call.total_occurrences > 0
    /\ curve' = build_curve(gen, curve_call.start, curve_call.end,
                            curve_call.occurrence_idx, curve_call.total_occurrences)
    /\ UNCHANGED <<auxVars, renderVars, curve_call, placeVars, sessionVars, appVars>>

(***************************************************************************)
(* MapGenerator.generate_map                                               *)
(***************************************************************************)
HasCoords(city) == ~IsNone(city.latitude) /\ ~IsNone(city.longitude)

\* valid_cities: the points with both coordinates, in route order
ValidCities(rt) == SelectSeq(rt, HasCoords)

\* the latitude margin applied to both axes
BoundsOneMargin(self, valid) ==
    LET lats == {Val(valid[i].latitude) : i \in 1..Len(valid)}
        lons == {Val(valid[i].longitude) : i \in 1..Len(valid)}
        lat_span == IF Len(valid) > 1 THEN SetMax(lats) - SetMin(lats) ELSE 0
        lon_span == IF Len(valid) > 1 THEN SetMax(lons) - SetMin(lons) ELSE 0
        min_margin == IF self.paper_format = "POSTCARD"
                      THEN (self.min_margin_deg * 5) \div 10
                      ELSE self.min_margin_deg
        margin_lat == Max2(min_margin, Scale(lat_span, margin_factor_lat(self)))
    IN  [ lat_span |-> lat_span, lon_span |-> lon_span,
          lat_min |-> SetMin(lats) - margin_lat, lat_max |-> SetMax(lats) + margin_lat,
          lon_min |-> SetMin(lons) - margin_lat, lon_max |-> SetMax(lons) + margin_lat ]

\* bounds: spans, margins and the axis window of the valid points
Bounds(self, valid) ==
    LET lats == {Val(valid[i].latitude) : i \in 1..Len(valid)}
        lons == {Val(valid[i].longitude) : i \in 1..Len(valid)}
        lat_span == IF Len(valid) > 1 THEN SetMax(lats) - SetMin(lats) ELSE 0
        lon_span == IF Len(valid) > 1 THEN SetMax(lons) - SetMin(lons) ELSE 0
        min_margin == IF self.paper_format = "POSTCARD"
                      THEN (self.min_margin_deg * 5) \div 10
                      ELSE self.min_margin_deg
        margin_lat == Max2(min_margin, Scale(lat_span, margin_factor_lat(self)))
        margin_lon == Max2(min_margin, Scale(lon_span, margin_factor_lon(self)))
    IN  [ lat_span |-> lat_span, lon_span |-> lon_span,
          lat_min |-> SetMin(lats) - margin_lat, lat_max |-> SetMax(lats) + margin_lat,
          lon_min |-> SetMin(lons) - margin_lon, lon_max |-> SetMax(lons) + margin_lon ]

\* the orientation swap applied whether or not the orientation is locked
ResolveFigsizeIgnoringLock(self, lon_span, lat_span) ==
    IF self.paper_format = NoneStr THEN self.figsize
    ELSE IF self.paper_format \notin DOMAIN PAPER_FORMATS THEN self.figsize
    ELSE LET paper_spec == PAPER_FORMATS[self.paper_format]
             width_in  == MmToInch(paper_spec.width_mm)
             height_in == MmToInch(paper_spec.height_mm)
         IN  IF lon_span > lat_span /\ width_in < height_in THEN <<height_in, width_in>>
             ELSE IF lon_span < lat_span /\ width_in > height_in
                  THEN <<height_in, width_in>>
             ELSE <<width_in, height_in>>

\* figure size from the paper format, with the orientation swap
ResolveFigsize(self, lon_span, lat_span) ==
    IF self.paper_format = NoneStr THEN self.figsize
    ELSE IF self.paper_format \notin DOMAIN PAPER_FORMATS THEN self.figsize
    ELSE LET paper_spec == PAPER_FORMATS[self.paper_format]
             width_in  == MmToInch(paper_spec.width_mm)
             height_in == MmToInch(paper_spec.height_mm)
         IN  IF ~(paper_spec.width_mm > 0 /\ paper_spec.height_mm > 0) THEN self.figsize
             ELSE IF (~self.lock_paper_orientation) /\ lon_span > lat_span
                     /\ width_in < height_in
                  THEN <<height_in, width_in>>
             ELSE IF (~self.lock_paper_orientation) /\ lon_span < lat_span
                     /\ width_in > height_in
                  THEN <<height_in, width_in>>
             ELSE <<width_in, height_in>>

\* segments always counted by their ordered pair
SegmentKeyOrdered(self, start_name, end_name) == <<start_name, end_name>>
\* segments always counted by their unordered pair
SegmentKeyUnordered(self, start_name, end_name) == {start_name, end_name}

\* the key under which a segment is counted: tuple(sorted((a, b))) identifies the
\* unordered pair, (a, b) the ordered pair
SegmentKey(self, start_name, end_name) ==
    IF self.merge_bidirectional_routes THEN {start_name, end_name}
    ELSE <<start_name, end_name>>

\* the loop over segment_keys: occurrence index, total, and whether a curve is drawn
Segments(self, valid) ==
    LET n == Len(valid)
        key(i) == SegmentKey(self, valid[i].name, valid[i + 1].name)
        occ(i) == Cardinality({j \in 1..(i - 1) : key(j) = key(i)})
        cnt(i) == Cardinality({j \in 1..(n - 1) : key(j) = key(i)})
    IN  [ i \in 1..(n - 1) |->
            [ i |-> i,
              start_name |-> valid[i].name, end_name |-> valid[i + 1].name,
              start |-> <<Val(valid[i].longitude), Val(valid[i].latitude)>>,
              end |-> <<Val(valid[i + 1].longitude), Val(valid[i + 1].latitude)>>,
              occurrence_idx |-> occ(i),
              total_occurrences |-> IF self.merge_bidirectional_routes THEN 1 ELSE cnt(i),
              drawn |-> ~(self.merge_bidirectional_routes /\ occ(i) > 0) ] ]

IsDrawn(seg) == seg.drawn

\* the loop without the seen_names test: one entry per visible point
RECURSIVE UniqueCitiesNoSeen(_, _, _, _)
UniqueCitiesNoSeen(rt, hidden, seen_names, unique_cities) ==
    IF rt = <<>> THEN unique_cities
    ELSE IF Head(rt).name \in hidden
         THEN UniqueCitiesNoSeen(Tail(rt), hidden, seen_names, unique_cities)
         ELSE UniqueCitiesNoSeen(Tail(rt), hidden, seen_names,
                                 Append(unique_cities, Head(rt)))

\* the loop building unique_cities: skip hidden names, keep the first of each name
RECURSIVE UniqueCities(_, _, _, _)
UniqueCities(rt, hidden, seen_names, unique_cities) ==
    IF rt = <<>> THEN unique_cities
    ELSE LET city == Head(rt)
         IN  IF city.name \in hidden
             THEN UniqueCities(Tail(rt), hidden, seen_names, unique_cities)
             ELSE IF city.name \notin seen_names
             THEN UniqueCities(Tail(rt), hidden, seen_names \cup {city.name},
                               Append(unique_cities, city))
             ELSE UniqueCities(Tail(rt), hidden, seen_names, unique_cities)

\* the offset without its fallback for a zero span
LabelOffsetYNoFallback(lat_span_raw) == Scale(lat_span_raw, 1)

\* label_offset_y: 0.1 % of the latitude span, 0.001 when that is zero
LabelOffsetY(lat_span_raw) ==
    LET label_offset_y == Scale(lat_span_raw, 1)
    IN  IF label_offset_y = 0 THEN 1 ELSE label_offset_y

\* the override added on top of the default offset instead of replacing it
LabelTargetOnTopOfDefault(city, ovs, label_offset_y) ==
    IF city.name \notin DOMAIN ovs
    THEN <<Val(city.longitude), Val(city.latitude) + label_offset_y>>
    ELSE <<Val(city.longitude) + ovs[city.name].dx,
           Val(city.latitude) + label_offset_y + ovs[city.name].dy>>

\* the target position of one label: anchor + override, or just above the point
LabelTarget(city, ovs, label_offset_y) ==
    IF city.name \in DOMAIN ovs
    THEN <<Val(city.longitude) + ovs[city.name].dx, Val(city.latitude) + ovs[city.name].dy>>
    ELSE <<Val(city.longitude), Val(city.latitude) + label_offset_y>>

Clip(x, lo, hi) == IF x < lo THEN lo ELSE IF x > hi THEN hi ELSE x

\* placement metadata taken from the text only when the text is visible
PlacedLabelIfVisible(text, city, ovs, b) ==
    LET lon_span == Max2(b.lon_max - b.lon_min, 1)
        lat_span == Max2(b.lat_max - b.lat_min, 1)
        x == IF text.visible THEN text.x ELSE Val(city.longitude)
        y == IF text.visible THEN text.y ELSE Val(city.latitude)
    IN  [ name |-> city.name,
          x_rel |-> [num |-> Clip(x - b.lon_min, 0, lon_span), den |-> lon_span],
          y_rel |-> [num |-> Clip(y - b.lat_min, 0, lat_span), den |-> lat_span],
          anchor_lon |-> Val(city.longitude),
          anchor_lat |-> Val(city.latitude),
          locked |-> city.name \in DOMAIN ovs,
          dx |-> x - Val(city.longitude),
          dy |-> y - Val(city.latitude) ]

\* one entry of placed_labels, from the text position; x_rel and y_rel are the
\* clipped fractions num / den
PlacedLabel(text, city, ovs, b) ==
    LET lon_span == Max2(b.lon_max - b.lon_min, 1)
        lat_span == Max2(b.lat_max - b.lat_min, 1)
    IN  [ name |-> city.name,
          x_rel |-> [num |-> Clip(text.x - b.lon_min, 0, lon_span), den |-> lon_span],
          y_rel |-> [num |-> Clip(text.y - b.lat_min, 0, lat_span), den |-> lat_span],
          anchor_lon |-> Val(city.longitude),
          anchor_lat |-> Val(city.latitude),
          locked |-> city.name \in DOMAIN ovs,
          dx |-> text.x - Val(city.longitude),
          dy |-> text.y - Val(city.latitude) ]

\* what the route list holds after the call had it filtered in place
RouteFilteredInPlace(rt, valid) == valid

\* generate_map reads the route (city.get, city[...]) and builds valid_cities as a new
\* list: no statement assigns to the list or to a point record
RouteAfterRender(rt, valid) == rt

\* what the overrides mapping holds had the lookup filled in missing names
OverridesDefaulted(ovs) ==
    [n \in DOMAIN ovs \cup {"A"} |-> IF n \in DOMAIN ovs THEN ovs[n] ELSE [dx |-> 0, dy |-> 0]]

\* label_overrides is only read, with .get: no statement assigns to it
OverridesAfterRender(ovs) == ovs

\* _label_font_size_pt
label_font_size_pt(self) ==
    CASE self.cls = "PosterMapGenerator" -> 28
      [] self.cls = "LandscapePosterMapGenerator" -> 26
      [] self.cls = "LargePosterMapGenerator" -> 32
      [] self.cls = "LandscapeLargePosterMapGenerator" -> 30
      [] OTHER -> IF self.paper_format = "POSTCARD" THEN 8 ELSE 11

\* files: what Image.open can read.  A raster saved by savefig is readable when its
\* format is a raster format; a missing directory makes savefig raise
IsImage(path) ==
    path \in {DefaultSignature, "sig.png", "map.png", "map_preview.png", "map_final.png"}
Writable(path) == path \in {"map.png", "map.pdf", "map_preview.png", "map_final.png"}

NoSignature == [present |-> FALSE, enabled |-> FALSE, warning |-> NoneStr,
                path |-> NoneStr, position |-> NoneStr, scale |-> 0]

\* a signature stamped although its file was found missing
apply_signature_ignoring_missing(self, out, fs) ==
    IF ~self.signature_enabled \/ self.signature_path = NoneStr THEN NoSignature
    ELSE [NoSignature EXCEPT !.present = TRUE, !.enabled = TRUE,
                             !.path = self.signature_path,
                             !.position = self.signature_position,
                             !.scale = self.signature_scale]

\* _apply_signature: None (present = FALSE) when the signature is disabled or has no
\* path; a warning when the signature file is missing, the saved map cannot be opened
\* or the signature cannot be read; else the signature is composited onto the file
apply_signature(self, out, fs) ==
    IF ~self.signature_enabled \/ self.signature_path = NoneStr THEN NoSignature
    ELSE IF self.signature_path \notin fs
    THEN [NoSignature EXCEPT !.present = TRUE, !.warning = "signature_not_found"]
    ELSE IF ~IsImage(out)
    THEN [NoSignature EXCEPT !.present = TRUE, !.warning = "map_not_opened"]
    ELSE IF ~IsImage(self.signature_path)
    THEN [NoSignature EXCEPT !.present = TRUE, !.warning = "signature_not_read"]
    ELSE [NoSignature EXCEPT !.present = TRUE, !.enabled = TRUE,
                             !.path = self.signature_path,
                             !.position = self.signature_position,
                             !.scale = self.signature_scale]

(***************************************************************************)
(* The box of the signature.  Pixel sizes are whole numbers; the scale is  *)
(* per-mille and the margin fraction per-cent, so the products handed to   *)
(* round() are exact rationals n / d.                                      *)
(***************************************************************************)
\* int(round(n / d)) for n >= 0, d > 0: round half to even, as Python 3 rounds
RoundHalfEven(n, d) ==
    LET q == n \div d
        r == n % d
    IN  IF 2 * r < d THEN q
        ELSE IF 2 * r > d THEN q + 1
        ELSE IF q % 2 = 0 THEN q ELSE q + 1

\* self.signature_margin_fraction, 0.06, per-cent
signature_margin_fraction == 6
\* corner_margin and corner_margin_right, pixels
corner_margin == 10
corner_margin_right == 5
\* the pixels added to the bottom offset and to the offset from the right
bottom_lift == 30
right_shift == 50
\* the fraction of the canvas height in the bottom offset of bottom_center, 0.03, per-cent
bottom_fraction == 3

\* the positions app.py lets through (allowed_positions)
allowed_positions ==
    {"bottom_right", "bottom_left", "top_right", "top_left", "bottom_center", "top_center"}
\* "top" in position, "bottom" in position, "left" in position, "center" in position, "right" in position
HasTop(position) == position \in {"top_right", "top_left", "top_center"}
HasBottom(position) == position \in {"bottom_right", "bottom_left", "bottom_center"}
HasLeft(position) == position \in {"top_left", "bottom_left"}
HasCenter(position) == position \in {"top_center", "bottom_center"}
HasRight(position) == position \in {"top_right", "bottom_right"}
is_corner(position) ==
    (HasLeft(position) \/ HasRight(position)) /\ (HasTop(position) \/ HasBottom(position))

NoBox == [x |-> 0, y |-> 0, width |-> 0, height |-> 0, raised |-> FALSE, made |-> FALSE]

\* _apply_signature from the sizes of the two images on: the scaled size of the
\* signature and its destination on the canvas
signature_box(self, base_width, base_height, sig_width, sig_height) ==
    LET target_width == Max2(1, RoundHalfEven(base_width * self.signature_scale, 1000))
        target_height ==
            IF sig_width = 0 THEN Max2(1, target_width)
            ELSE Max2(1, RoundHalfEven(target_width * sig_height, sig_width))
        position == self.signature_position
        margin_x == RoundHalfEven(base_width * signature_margin_fraction, 100)
        margin_y == RoundHalfEven(base_height * signature_margin_fraction, 100)
        dest_y == IF HasTop(position)
                  THEN (IF is_corner(position) THEN corner_margin ELSE margin_y)
                  ELSE Max2(0, base_height - target_height
                               - (IF is_corner(position) THEN corner_margin + bottom_lift
                                  ELSE RoundHalfEven(base_height * bottom_fraction, 100)
                                       + bottom_lift))
        dest_x == IF HasLeft(position)
                  THEN (IF is_corner(position) THEN corner_margin ELSE margin_x)
                  ELSE IF HasCenter(position) THEN (base_width - target_width) \div 2
                  ELSE base_width - target_width
                       - (IF is_corner(position) THEN corner_margin_right + right_shift
                          ELSE margin_x + right_shift)
    IN  [x |-> dest_x, y |-> dest_y, width |-> target_width, height |-> target_height,
         raised |-> FALSE, made |-> TRUE]

\* base_image.alpha_composite(resized_signature, dest): a negative destination is
\* rejected with ValueError by the Pillow releases that check it and accepted by the
\* others; the sources name no release
CompositeOutcomes(box) ==
    IF box.x < 0 \/ box.y < 0 THEN {box, [box EXCEPT !.raised = TRUE]} ELSE {box}

NoSigCall == [base_width |-> 0, base_height |-> 0, sig_width |-> 0, sig_height |-> 0]

\* a direct _apply_signature call on an existing signature and an existing raster
ApplySignature ==
    /\ sig_call # NoSigCall
    /\ ~sig_box.made
    /\ sig_box' \in CompositeOutcomes(signature_box(gen, sig_call.base_width,
                                                    sig_call.base_height,
                                                    sig_call.sig_width, sig_call.sig_height))
    /\ UNCHANGED <<sig_call, callers, geocoding, storage, renderVars, curveVars, placeVars,
                   sessionVars, appVars>>

\* the outcomes of requests.get(url).json() for the border dataset
NetworkOutcomes == {"shapes", "empty", "error"}

\* a fetch on every call, whatever the cache holds
get_border_shapes_uncached(cache, error, net) ==
    IF net = "error"
    THEN [shapes |-> <<>>, cache |-> Some(<<>>), error |-> "RequestException", fetched |-> 1]
    ELSE LET shapes == IF net = "shapes" THEN <<"country">> ELSE <<>>
         IN  [shapes |-> shapes, cache |-> Some(shapes), error |-> error, fetched |-> 1]

\* _get_border_shapes: the cache when it is set, else one fetch whose result, or the
\* empty list and the error, is cached
get_border_shapes(cache, error, net) ==
    IF ~IsNone(cache)
    THEN [shapes |-> Val(cache), cache |-> cache, error |-> error, fetched |-> 0]
    ELSE IF net = "error"
    THEN [shapes |-> <<>>, cache |-> Some(<<>>), error |-> "RequestException", fetched |-> 1]
    ELSE LET shapes == IF net = "shapes" THEN <<"country">> ELSE <<>>
         IN  [shapes |-> shapes, cache |-> Some(shapes), error |-> error, fetched |-> 1]

\* _draw_country_borders: the collection added to the axes, or a printed warning when
\* there are no shapes and an error was recorded
draw_country_borders(cache, error, net) ==
    LET g == get_border_shapes(cache, error, net)
    IN  [ borders |-> g.shapes,
          printed |-> IF g.shapes = <<>> /\ g.error # NoneStr THEN {"border_error"} ELSE {},
          cache |-> g.cache, error |-> g.error, fetched |-> g.fetched ]

\* the instance state and the network as one generate_map call finds them
Env(cache, error, net, fs) == [cache |-> cache, error |-> error, net |-> net, fs |-> fs]

EmptyAx == [lines |-> <<>>, points |-> <<>>, texts |-> <<>>, xlim |-> <<>>, ylim |-> <<>>,
            borders |-> <<>>]
EmptyInfo == [labels |-> <<>>, figure |-> <<>>, bounds |-> <<>>, style |-> <<>>,
              signature |-> NoSignature, warnings |-> <<>>]

\* the warning printed for a paper format that is not in the catalog
UnknownFormatPrinted(self) ==
    IF self.paper_format # NoneStr /\ self.paper_format \notin DOMAIN PAPER_FORMATS
    THEN {"unknown_paper_format"} ELSE {}

\* the warnings list of the result: the signature warning, when there is one
ResultWarnings(self, signature_meta) ==
    IF signature_meta.present /\ signature_meta.warning # NoneStr
    THEN <<signature_meta.warning>> ELSE <<>>

\* The effect of MapGenerator.generate_map as a record:
\*   outcome      "returned", "returned_none" or the exception that left the call
\*   info         the dictionary returned
\*   ax           what was drawn
\*   created      whether plt.subplots created a figure
\*   closed       whether plt.close was reached
\*   written      the files savefig wrote
\*   printed      the warnings printed
\*   cache, error, fetched   the border cache and error after the call, fetches made
\*   route, overrides        what the argument objects hold after the call
BaseGenerateMap(self, rt, out, ovs, rl, hidden, env) ==
    LET valid == ValidCities(rt)
        quiet == [cache |-> env.cache, error |-> env.error, fetched |-> 0,
                  route |-> RouteAfterRender(rt, valid),
                  overrides |-> OverridesAfterRender(ovs)]
    IN  IF Len(valid) < 1
        THEN quiet @@
             [outcome |-> "returned_none", info |-> EmptyInfo, ax |-> EmptyAx,
              created |-> FALSE, closed |-> FALSE, written |-> {},
              printed |-> {"no_valid_cities"}]
        ELSE
        LET b == Bounds(self, valid)
            figsize == ResolveFigsize(self, b.lon_span, b.lat_span)
            segs == IF Len(valid) > 1 THEN Segments(self, valid) ELSE <<>>
            lines == SelectSeq(segs, IsDrawn)
            points == [i \in 1..Len(valid) |->
                         <<Val(valid[i].longitude), Val(valid[i].latitude)>>]
            unique_cities == UniqueCities(rt, hidden, {}, <<>>)
            label_offset_y == LabelOffsetY(b.lat_span)
            \* city["longitude"] / city["latitude"] of a point without coordinates
            \* is None, and None + float raises TypeError while the texts are built
            bad == \E i \in 1..Len(unique_cities) : ~HasCoords(unique_cities[i])
            texts == [i \in 1..Len(unique_cities) |->
                        LET t == LabelTarget(unique_cities[i], ovs, label_offset_y)
                        IN  [name |-> unique_cities[i].name, x |-> t[1], y |-> t[2],
                             visible |-> rl]]
            d == IF self.show_borders
                 THEN draw_country_borders(env.cache, env.error, env.net)
                 ELSE [borders |-> <<>>, printed |-> {}, cache |-> env.cache,
                       error |-> env.error, fetched |-> 0]
            drawn == [lines |-> lines, points |-> points, texts |-> texts,
                      xlim |-> <<b.lon_min, b.lon_max>>, ylim |-> <<b.lat_min, b.lat_max>>,
                      borders |-> d.borders]
            placed_labels == [i \in 1..Len(unique_cities) |->
                                PlacedLabel(texts[i], unique_cities[i], ovs, b)]
            signature_meta == IF out # NoneStr THEN apply_signature(self, out, env.fs)
                              ELSE NoSignature
            info == [ labels |-> placed_labels,
                      figure |-> [ width_px |-> (figsize[1] * self.dpi) \div 254,
                                   height_px |-> (figsize[2] * self.dpi) \div 254,
                                   figsize |-> figsize ],
                      bounds |-> [lon_min |-> b.lon_min, lon_max |-> b.lon_max,
                                  lat_min |-> b.lat_min, lat_max |-> b.lat_max],
                      style |-> [label_font_size_pt |-> label_font_size_pt(self)],
                      signature |-> signature_meta,
                      warnings |-> ResultWarnings(self, signature_meta) ]
            after_borders == [cache |-> d.cache, error |-> d.error, fetched |-> d.fetched,
                              route |-> RouteAfterRender(rt, valid),
                              overrides |-> OverridesAfterRender(ovs)]
        IN  IF bad
            THEN quiet @@
                 [outcome |-> "TypeError", info |-> EmptyInfo,
                  ax |-> [EmptyAx EXCEPT !.lines = lines, !.points = points],
                  created |-> TRUE, closed |-> FALSE, written |-> {},
                  printed |-> UnknownFormatPrinted(self)]
            ELSE IF out # NoneStr /\ ~Writable(out)
            \* savefig raises for a path that cannot be written, before plt.close()
            THEN after_borders @@
                 [outcome |-> "FileNotFoundError", info |-> EmptyInfo, ax |-> drawn,
                  created |-> TRUE, closed |-> FALSE, written |-> {},
                  printed |-> UnknownFormatPrinted(self) \cup d.printed]
            ELSE after_borders @@
                 [outcome |-> "returned", info |-> info, ax |-> drawn,
                  created |-> TRUE, closed |-> TRUE,
                  written |-> IF out # NoneStr THEN {out} ELSE {},
                  printed |-> UnknownFormatPrinted(self) \cup d.printed]

\* The poster subclasses call super().generate_map and then map_info.setdefault("style", {}),
\* which raises AttributeError when super() returned None.
PosterTitleFontPt(cls) ==
    CASE cls = "PosterMapGenerator" -> 112
      [] cls = "LandscapePosterMapGenerator" -> 96
      [] cls = "LargePosterMapGenerator" -> 140
      [] OTHER -> 120

\* what a poster subclass makes of the result r of super().generate_map
PosterGenerateMap(self, r) ==
    IF r.outcome = "returned_none" THEN [r EXCEPT !.outcome = "AttributeError"]
    ELSE IF r.outcome = "returned"
    THEN [r EXCEPT !.info.style =
             [label_font_size_pt |-> r.info.style.label_font_size_pt,
              title_font_size_pt |-> PosterTitleFontPt(self.cls)]]
    ELSE r

GenerateMapEffect(self, rt, out, ovs, rl, hidden, env) ==
    IF self.cls \notin PosterClasses
    THEN BaseGenerateMap(self, rt, out, ovs, rl, hidden, env)
    ELSE PosterGenerateMap(self, BaseGenerateMap(self, rt, out, ovs, rl, hidden, env))

\* the state after a generate_map call with effect r
AfterGenerateMap(r) ==
    /\ outcome' = r.outcome
    /\ map_info' = r.info
    /\ ax' = r.ax
    /\ open_figures' = open_figures + (IF r.created /\ ~r.closed THEN 1 ELSE 0)
    /\ saved_files' = saved_files \cup r.written
    /\ border_shapes_cache' = r.cache
    /\ border_error' = r.error
    /\ fetches' = fetches + r.fetched
    /\ printed' = printed \cup r.printed
    /\ route' = r.route
    /\ label_overrides' = r.overrides

\* generate_map(route, output_file, label_overrides, render_labels, hidden_labels)
GenerateMap ==
    /\ outcome = "ready"
    /\ \E net \in NetworkOutcomes :
         AfterGenerateMap(GenerateMapEffect(gen, route, output_file, label_overrides,
                                            render_labels, hidden_labels,
                                            Env(border_shapes_cache, border_error, net,
                                                files)))
    /\ calls' = calls + 1
    /\ UNCHANGED <<auxVars, gen, output_file, render_labels, hidden_labels,
                   curveVars, placeVars, files, prev_call, appVars>>

(***************************************************************************)
(* MapGenerator._place_labels_with_collision_avoidance                     *)
(*                                                                         *)
(* Pixel positions are whole pixels; a quotient is rounded to the nearest  *)
(* pixel and a norm is the integer square root.  ax.transData is the       *)
(* affine map of an axes drawn at PxPerUnit pixels per data unit with its  *)
(* origin at AxesOrigin.                                                   *)
(***************************************************************************)
PxPerUnit == 2
AxesOrigin == <<100, 50>>

\* round(a / b) for b > 0
DivRound(a, b) == (2 * a + b) \div (2 * b)

RECURSIVE SqrtBetween(_, _, _)
SqrtBetween(n, lo, hi) ==
    IF lo >= hi THEN lo
    ELSE LET mid == (lo + hi + 1) \div 2
         IN  IF mid * mid <= n THEN SqrtBetween(n, mid, hi)
             ELSE SqrtBetween(n, lo, mid - 1)
\* floor of the square root
ISqrt(n) == SqrtBetween(n, 0, Min2(n, 46340))
\* np.linalg.norm
Norm(v) == ISqrt(Dot(v, v))
\* v / norm(v) * length
Toward(v, length) == <<DivRound(v[1] * length, Norm(v)), DivRound(v[2] * length, Norm(v))>>

data_to_px(point) ==
    <<AxesOrigin[1] + PxPerUnit * point[1], AxesOrigin[2] + PxPerUnit * point[2]>>
px_to_data(point_px) ==
    <<(point_px[1] - AxesOrigin[1]) \div PxPerUnit,
      (point_px[2] - AxesOrigin[2]) \div PxPerUnit>>

\* text.get_window_extent: the rendered size of a label, by name
TextExtent(name) ==
    IF name = "A" THEN [width |-> 30, height |-> 14] ELSE [width |-> 64, height |-> 30]

\* default arguments of _place_labels_with_collision_avoidance
min_line_distance_px == 32
min_label_distance_px == 30
max_anchor_distance_px == 140
\* the max_iterations argument of the calls of the model (180 by default)
MaxPasses == 5

\* _closest_point_on_segment_px
closest_point_on_segment_px(point_px, seg_start_px, seg_end_px) ==
    LET seg_vec == VSub(seg_end_px, seg_start_px)
        seg_len_sq == Dot(seg_vec, seg_vec)
        projection ==
            IF seg_len_sq = 0 THEN seg_start_px
            ELSE LET t_num == Clip(Dot(VSub(point_px, seg_start_px), seg_vec), 0, seg_len_sq)
                 IN  <<seg_start_px[1] + DivRound(t_num * seg_vec[1], seg_len_sq),
                       seg_start_px[2] + DivRound(t_num * seg_vec[2], seg_len_sq)>>
    IN  [projection |-> projection, distance |-> Norm(VSub(point_px, projection))]

\* label_bbox
label_bbox(entry) ==
    <<entry.position_px[1] - entry.half_width_px, entry.position_px[1] + entry.half_width_px,
      entry.position_px[2] - entry.half_height_px, entry.position_px[2] + entry.half_height_px>>

\* _boxes_overlap
boxes_overlap(box_a, box_b, padding) ==
    ~ \/ box_a[2] + padding < box_b[1] - padding
      \/ box_a[1] - padding > box_b[2] + padding
      \/ box_a[4] + padding < box_b[3] - padding
      \/ box_a[3] - padding > box_b[4] + padding

\* segments: the straight connections of consecutive route cities, in pixels
PlaceSegments(route_cities) ==
    [i \in 1..(Len(route_cities) - 1) |->
        <<data_to_px(<<Val(route_cities[i].longitude), Val(route_cities[i].latitude)>>),
          data_to_px(<<Val(route_cities[i + 1].longitude),
                       Val(route_cities[i + 1].latitude)>>)>>]

\* the entry built for one text: locked at anchor + override, or at the text position
LabelEntry(text, city, overrides) ==
    LET anchor == <<Val(city.longitude), Val(city.latitude)>>
        locked == city.name \in DOMAIN overrides
        position_data ==
            IF locked
            THEN <<anchor[1] + overrides[city.name].dx, anchor[2] + overrides[city.name].dy>>
            ELSE <<text.x, text.y>>
        bbox == TextExtent(text.name)
    IN  [ name |-> text.name,
          anchor_data |-> anchor,
          anchor_px |-> data_to_px(anchor),
          position_px |-> data_to_px(position_data),
          half_width_px |-> Max2(bbox.width \div 2, 20),
          half_height_px |-> Max2(bbox.height \div 2, 12),
          locked |-> locked ]

\* the push away from one segment closer than min_line_distance_px
LineShift(pos_px, seg) ==
    LET c == closest_point_on_segment_px(pos_px, seg[1], seg[2])
        away == VSub(pos_px, c.projection)
        seg_vec == VSub(seg[2], seg[1])
        direction == IF away # <<0, 0>> THEN away
                     ELSE IF seg_vec # <<0, 0>> THEN <<-seg_vec[2], seg_vec[1]>>
                     ELSE <<0, 1>>
    IN  IF c.distance < min_line_distance_px
        THEN Toward(direction, min_line_distance_px - c.distance + 1)
        ELSE <<0, 0>>

\* the push away from one other label whose padded box overlaps
LabelShift(entry, other) ==
    LET delta == VSub(entry.position_px, other.position_px)
        d == IF delta = <<0, 0>> THEN <<0, 1>> ELSE delta
    IN  IF boxes_overlap(label_bbox(entry), label_bbox(other), min_label_distance_px)
        THEN Toward(d, min_label_distance_px \div 2)
        ELSE <<0, 0>>

RECURSIVE SumSeq(_, _)
SumSeq(vs, k) == IF k = 0 THEN <<0, 0>> ELSE VAdd(SumSeq(vs, k - 1), vs[k])

\* the shift of one unlocked entry: lines, other labels, and the pull to the anchor
EntryShift(entries, k, segments) ==
    LET entry == entries[k]
        from_lines == [i \in 1..Len(segments) |-> LineShift(entry.position_px, segments[i])]
        from_labels == [j \in 1..Len(entries) |->
                          IF j = k THEN <<0, 0>> ELSE LabelShift(entry, entries[j])]
        to_anchor == VSub(entry.position_px, entry.anchor_px)
        pull == <<-DivRound(3 * to_anchor[1], 100), -DivRound(3 * to_anchor[2], 100)>>
    IN  VAdd(VAdd(SumSeq(from_lines, Len(from_lines)), SumSeq(from_labels, Len(from_labels))),
             pull)

\* the shifted position, however far from the anchor
MovedUnclamped(entry, shift) == VAdd(entry.position_px, shift)

\* the new position: the shifted one, pulled back to max_anchor_distance_px of the anchor
Moved(entry, shift) ==
    LET new_pos == VAdd(entry.position_px, shift)
        off == VSub(new_pos, entry.anchor_px)
    IN  IF Dot(off, off) > max_anchor_distance_px * max_anchor_distance_px
        THEN VAdd(entry.anchor_px, Toward(off, max_anchor_distance_px))
        ELSE new_pos

\* a pass that moves the locked entries as well
RECURSIVE RelaxPassAll(_, _, _, _)
RelaxPassAll(entries, k, moved, segments) ==
    IF k > Len(entries) THEN [entries |-> entries, moved |-> moved]
    ELSE LET shift == EntryShift(entries, k, segments)
         IN  IF shift # <<0, 0>>
             THEN RelaxPassAll([entries EXCEPT ![k].position_px = Moved(entries[k], shift)],
                               k + 1, TRUE, segments)
             ELSE RelaxPassAll(entries, k + 1, moved, segments)

\* one pass of the relaxation loop over label_entries, entry by entry; locked
\* entries are skipped; a shift shorter than 0.4 px moves nothing
RECURSIVE RelaxPass(_, _, _, _)
RelaxPass(entries, k, moved, segments) ==
    IF k > Len(entries) THEN [entries |-> entries, moved |-> moved]
    ELSE IF entries[k].locked THEN RelaxPass(entries, k + 1, moved, segments)
    ELSE LET shift == EntryShift(entries, k, segments)
         IN  IF shift # <<0, 0>>
             THEN RelaxPass([entries EXCEPT ![k].position_px = Moved(entries[k], shift)],
                            k + 1, TRUE, segments)
             ELSE RelaxPass(entries, k + 1, moved, segments)

\* the call, up to the relaxation loop: texts and unique_cities of the render
PlaceBegin ==
    /\ outcome = "returned"
    /\ place_pc = "idle"
    /\ LET unique_cities == UniqueCities(route, hidden_labels, {}, <<>>)
       IN  IF ax.texts = <<>> \/ unique_cities = <<>>
           THEN /\ place_pc' = "done"
                /\ UNCHANGED <<label_entries, passes, place_result>>
           ELSE /\ label_entries' = [k \in 1..Len(ax.texts) |->
                                       LabelEntry(ax.texts[k], unique_cities[k],
                                                  label_overrides)]
                /\ place_pc' = IF MaxPasses > 0 THEN "loop" ELSE "final"
                /\ UNCHANGED <<passes, place_result>>
    /\ UNCHANGED <<auxVars, renderVars, curveVars, sessionVars, appVars>>

\* one iteration of "for _ in range(max_iterations)", with its "if not moved: break"
PlacePass ==
    /\ place_pc = "loop"
    /\ LET r == RelaxPass(label_entries, 1, FALSE, PlaceSegments(ValidCities(route)))
       IN  /\ label_entries' = r.entries
           /\ passes' = passes + 1
           /\ place_pc' = IF ~r.moved \/ passes + 1 >= MaxPasses THEN "final" ELSE "loop"
    /\ UNCHANGED <<auxVars, renderVars, curveVars, place_result, sessionVars, appVars>>

\* after the loop: unlocked texts are moved to their final position, the result is built
PlaceEnd ==
    /\ place_pc = "final"
    /\ ax' = [ax EXCEPT !.texts =
                [k \in 1..Len(ax.texts) |->
                    IF label_entries[k].locked THEN ax.texts[k]
                    ELSE [ax.texts[k] EXCEPT
                            !.x = px_to_data(label_entries[k].position_px)[1],
                            !.y = px_to_data(label_entries[k].position_px)[2]]]]
    /\ place_result' = [k \in 1..Len(label_entries) |->
                          [ name |-> label_entries[k].name,
                            anchor_data |-> label_entries[k].anchor_data,
                            position_data |-> px_to_data(label_entries[k].position_px),
                            anchor_px |-> label_entries[k].anchor_px,
                            position_px |-> label_entries[k].position_px,
                            locked |-> label_entries[k].locked ]]
    /\ place_pc' = "done"
    /\ UNCHANGED <<auxVars, gen, route, output_file, label_overrides, render_labels, hidden_labels,
                   outcome, map_info, open_figures, saved_files, curveVars,
                   label_entries, passes, sessionVars, appVars>>

(***************************************************************************)
(* label_overrides.py: the persisted store of label offsets                *)
(***************************************************************************)
EmptyMapping == [n \in {} |-> [dx |-> 0, dy |-> 0]]

\* the file label_overrides.json
AbsentFile == [exists |-> FALSE, readable |-> FALSE, data |-> EmptyMapping]
CorruptFile == [exists |-> TRUE, readable |-> FALSE, data |-> EmptyMapping]
StoreFile(data) == [exists |-> TRUE, readable |-> TRUE, data |-> data]

\* a missing file and a file that is not a JSON object both load as {}
load_overrides(st) ==
    IF ~st.exists THEN EmptyMapping
    ELSE IF ~st.readable THEN EmptyMapping
    ELSE st.data

\* write_text either replaces the file or raises OSError, which is logged and dropped
save_overrides(st, writable, data) ==
    IF writable
    THEN [store |-> StoreFile(data), logged |-> 0, data |-> data]
    ELSE [store |-> st, logged |-> 1, data |-> data]

DictGet(data, key, default) == IF key \in DOMAIN data THEN data[key] ELSE default
DictSet(data, key, value) ==
    [n \in DOMAIN data \cup {key} |-> IF n = key THEN value ELSE data[n]]
DictPop(data, key) == [n \in DOMAIN data \ {key} |-> data[n]]

update_override(st, writable, city, dx, dy) ==
    LET data == load_overrides(st)
        entry == DictGet(data, city, [dx |-> 0, dy |-> 0])
    IN  save_overrides(st, writable,
                       DictSet(data, city, [dx |-> entry.dx + dx, dy |-> entry.dy + dy]))

\* set_override adding to the stored entry instead of replacing it
set_override_accumulating(st, writable, city, dx, dy) ==
    LET data == load_overrides(st)
        entry == DictGet(data, city, [dx |-> 0, dy |-> 0])
    IN  save_overrides(st, writable,
                       DictSet(data, city, [dx |-> entry.dx + dx, dy |-> entry.dy + dy]))

set_override(st, writable, city, dx, dy) ==
    save_overrides(st, writable, DictSet(load_overrides(st), city, [dx |-> dx, dy |-> dy]))

\* city = NoneStr is the call without a city
reset_override(st, writable, city) ==
    IF city = NoneStr
    THEN save_overrides(st, writable, EmptyMapping)
    ELSE save_overrides(st, writable, DictPop(load_overrides(st), city))

NoOp == [n |-> 0, name |-> "none", city |-> NoneStr, dx |-> 0, dy |-> 0,
         returned |-> EmptyMapping]

MaxOps == 3
StoreCities == {"A", "B"}
Deltas == {-1000, 0, 500}

\* the effect of one store operation whose result is r
AfterStoreOp(name, city, dx, dy, r) ==
    /\ store' = r.store
    /\ store_log' = store_log + r.logged
    /\ last_op' = [n |-> last_op.n + 1, name |-> name, city |-> city, dx |-> dx, dy |-> dy,
                   returned |-> r.data]
    /\ UNCHANGED <<auxVars, store_writable, webVars, renderVars, curveVars, placeVars, sessionVars>>

UpdateOverride ==
    /\ last_op.n < MaxOps
    /\ \E city \in StoreCities, dx \in Deltas, dy \in Deltas :
         AfterStoreOp("update_override", city, dx, dy,
                      update_override(store, store_writable, city, dx, dy))

SetOverride ==
    /\ last_op.n < MaxOps
    /\ \E city \in StoreCities, dx \in Deltas, dy \in Deltas :
         AfterStoreOp("set_override", city, dx, dy,
                      set_override(store, store_writable, city, dx, dy))

ResetOverride ==
    /\ last_op.n < MaxOps
    /\ \E city \in StoreCities \cup {NoneStr} :
         AfterStoreOp("reset_override", city, 0, 0,
                      reset_override(store, store_writable, city))

(***************************************************************************)
(* Concurrent set_override calls: each caller runs data = load_overrides() *)
(* and later save_overrides(data with its entry); the steps of the callers *)
(* interleave.  callers.initial is the file when the calls began.          *)
(***************************************************************************)
NoCallers == [initial |-> AbsentFile, procs |-> <<>>, saves |-> <<>>]

\* a caller that has not begun: set_override(city, dx, dy)
Caller(city, dx, dy) ==
    [pc |-> "start", city |-> city, dx |-> dx, dy |-> dy, data |-> EmptyMapping]

\* the data a caller saves when it drops what it loaded
SavedDataOwnOnly(p) == DictSet(EmptyMapping, p.city, [dx |-> p.dx, dy |-> p.dy])

\* data[city] = {"dx": float(dx), "dy": float(dy)} on the data the caller loaded
SavedData(p) == DictSet(p.data, p.city, [dx |-> p.dx, dy |-> p.dy])

\* data = load_overrides()
CallerLoad ==
    \E c \in DOMAIN callers.procs :
        /\ callers.procs[c].pc = "start"
        /\ callers' = [callers EXCEPT !.procs[c].pc = "loaded",
                                      !.procs[c].data = load_overrides(store)]
        /\ UNCHANGED <<sigVars, geocoding, storage, storeVars, webVars, renderVars, curveVars,
                       placeVars, sessionVars>>

\* save_overrides(data); return data
CallerSave ==
    \E c \in DOMAIN callers.procs :
        /\ callers.procs[c].pc = "loaded"
        /\ LET r == save_overrides(store, store_writable, SavedData(callers.procs[c]))
           IN  /\ store' = r.store
               /\ store_log' = store_log + r.logged
               /\ callers' = [callers EXCEPT !.procs[c].pc = "done",
                                             !.procs[c].data = r.data,
                                             !.saves = Append(@, c)]
        /\ UNCHANGED <<sigVars, geocoding, storage, store_writable, last_op, webVars,
                       renderVars, curveVars, placeVars, sessionVars>>

(***************************************************************************)
(* geocoder.py: one Geocoder.get_coordinates call, lookup by lookup.  A    *)
(* lookup is one geolocator.geocode call; the service decides its outcome. *)
(***************************************************************************)
\* self.retry_attempts
retry_attempts == 3

\* the city names of the model: blank, plain, accented, and with a comma
GeoNames == {"", " ", "Paris", " Paris ", "Kraków", "Kraków, Polska", "Paris, France"}
\* city_name.strip()
StripName(name) ==
    CASE name = " " -> ""
      [] name = " Paris " -> "Paris"
      [] OTHER -> name
\* NFKD without the combining characters
AsciiVariant(base) ==
    CASE base = "Kraków" -> "Krakow"
      [] base = "Kraków, Polska" -> "Krakow, Polska"
      [] OTHER -> base
\* "," in base
HasComma(base) == base \in {"Kraków, Polska", "Paris, France"}

\* add_candidate: a query already seen is not added again
add_candidate(candidates, query) ==
    IF query = "" \/ \E i \in 1..Len(candidates) : candidates[i] = query THEN candidates
    ELSE Append(candidates, query)

\* _build_query_candidates: the name, its form without accents, the name in Europe
build_query_candidates(city_name) ==
    LET base == StripName(city_name)
        first == add_candidate(<<>>, base)
        second == IF AsciiVariant(base) # base THEN add_candidate(first, AsciiVariant(base))
                  ELSE first
    IN  IF base = "" THEN <<>>
        ELSE IF ~HasComma(base) THEN add_candidate(second, base \o ", Europe")
        ELSE second

\* what one geolocator.geocode call can do: return a location, return None, raise
LookupOutcomes == {"found", "not_found", "raised"}
\* (latitude, longitude) of the locations of the model
Locations == {<<0, 0>>, <<50061, 19938>>}

NoGeocoding == [pc |-> "idle", city_name |-> "", candidates |-> <<>>, query_idx |-> 0,
                attempt |-> 0, lookups |-> <<>>, result |-> NoNum, printed |-> 0]

\* get_coordinates leaves the loop over the candidates: with the coordinates, or after
\* the last candidate with the message printed and None
GeoReturn(g, coords) ==
    [g EXCEPT !.pc = "done", !.result = coords,
              !.printed = IF coords = NoNum THEN g.printed + 1 ELSE g.printed]

\* _geocode_query returned None for the current candidate: the next one, if any
NextCandidate(g) ==
    IF g.query_idx < Len(g.candidates)
    THEN [g EXCEPT !.query_idx = g.query_idx + 1, !.attempt = 0]
    ELSE GeoReturn(g, NoNum)

\* the same with a lookup that found nothing tried again like one that raised
after_lookup_retrying_not_found(g, answer, location) ==
    IF answer = "found" THEN GeoReturn(g, Some(location))
    ELSE IF g.attempt + 1 < retry_attempts THEN [g EXCEPT !.attempt = g.attempt + 1]
    ELSE NextCandidate(g)

\* the rest of the iteration of _geocode_query after lookup number g.attempt + 1 of the
\* current candidate: return the location, break on None, continue on an exception
after_lookup(g, answer, location) ==
    IF answer = "found" THEN GeoReturn(g, Some(location))
    ELSE IF answer = "not_found" THEN NextCandidate(g)
    ELSE IF g.attempt + 1 < retry_attempts THEN [g EXCEPT !.attempt = g.attempt + 1]
    ELSE NextCandidate(g)

\* get_coordinates(city_name) up to its first lookup
GetCoordinates ==
    /\ geocoding.pc = "start"
    /\ LET candidates == build_query_candidates(geocoding.city_name)
           g == [geocoding EXCEPT !.candidates = candidates]
       IN  geocoding' = IF candidates = <<>> THEN GeoReturn(g, NoNum)
                        ELSE [g EXCEPT !.pc = "query", !.query_idx = 1, !.attempt = 0]
    /\ UNCHANGED <<sigVars, callers, storage, appVars, renderVars, curveVars, placeVars,
                   sessionVars>>

\* one geolocator.geocode(query) call and what _geocode_query does with its answer
GeocodeQuery ==
    /\ geocoding.pc = "query"
    /\ \E answer \in LookupOutcomes, location \in Locations :
         LET g == [geocoding EXCEPT
                     !.lookups = Append(@, [query |-> geocoding.candidates[geocoding.query_idx],
                                            attempt |-> geocoding.attempt + 1,
                                            outcome |-> answer,
                                            location |-> IF answer = "found"
                                                         THEN Some(location) ELSE NoNum])]
         IN  geocoding' = after_lookup(g, answer, location)
    /\ UNCHANGED <<sigVars, callers, storage, appVars, renderVars, curveVars, placeVars,
                   sessionVars>>

(***************************************************************************)
(* storage.py: a StorageManager, its route file and the lists get_route    *)
(* handed out.  Cities are {name, latitude, longitude}.                    *)
(***************************************************************************)
StoredCity(name, lat, lon) == [name |-> name, latitude |-> lat, longitude |-> lon]

\* the route file: absent, not JSON, or the list that was dumped
AbsentRouteFile == [exists |-> FALSE, valid |-> FALSE, data |-> <<>>]
CorruptRouteFile == [exists |-> TRUE, valid |-> FALSE, data |-> <<>>]
RouteFile(data) == [exists |-> TRUE, valid |-> TRUE, data |-> data]

\* load_route: the list of the file; [] for a missing file and for one json.load rejects
load_route(file) == IF file.exists /\ file.valid THEN file.data ELSE <<>>

\* save_route: open(..., 'w') and json.dump; on a file that cannot be opened for writing
\* the IOError leaves the method, and its caller, uncaught
save_route(file, writable, data) ==
    IF writable THEN [file |-> RouteFile(data), raised |-> NoneStr]
    ELSE [file |-> file, raised |-> "IOError"]

\* the guard of update_city_coordinates without its lower bound
index_below_len(index, len) == index < len

\* 0 <= index < len(self.route)
index_in_range(index, len) == 0 <= index /\ index < len

\* self.route[index] of a Python list, as a position from 1; a negative index counts
\* from the end
ListPos(index, len) == IF index < 0 THEN len + index + 1 ELSE index + 1

NoStorageOp == [name |-> "none", index |-> 0, raised |-> NoneStr]
NoStorage == [made |-> FALSE, route |-> <<>>, file |-> AbsentRouteFile, writable |-> TRUE,
              initial |-> AbsentRouteFile, kept |-> <<>>, since |-> <<>>, ops |-> 0,
              saves |-> 0, handed |-> FALSE, returned |-> <<>>, last |-> NoStorageOp]

\* StorageManager(): self.route = load_route()
NewStorage(file, writable) ==
    [NoStorage EXCEPT !.made = TRUE, !.route = load_route(file), !.file = file,
                      !.writable = writable, !.initial = file,
                      !.kept = [i \in 1..Len(load_route(file)) |-> load_route(file)[i].name]]

MaxStorageOps == 3
StorageNames == {"A", "B"}
\* (lat, lon) of add_city and update_city_coordinates: found, or None, None
StorageCoords == {<<Some(52000), Some(21000)>>, <<NoNum, NoNum>>}
\* the indexes a caller passes: before the list, in it, and behind it
StorageIndexes == {-1, 0, 1, MaxStorageOps + 2}

\* the manager after a method that changed self.route to new_route and then saved it
AfterSave(st, name, index, new_route, kept, since) ==
    LET w == save_route(st.file, st.writable, new_route)
    IN  [st EXCEPT !.route = new_route, !.file = w.file, !.kept = kept, !.since = since,
                   !.ops = st.ops + 1,
                   !.saves = IF w.raised = NoneStr THEN st.saves + 1 ELSE st.saves,
                   !.last = [name |-> name, index |-> index, raised |-> w.raised]]

storageFrame == <<sigVars, callers, geocoding, appVars, renderVars, curveVars, placeVars,
                  sessionVars>>

\* add_city(name, lat, lon): append, then save_route
AddCity ==
    /\ storage.made /\ storage.ops < MaxStorageOps
    /\ \E name \in StorageNames, c \in StorageCoords :
         storage' = AfterSave(storage, "add_city", 0,
                              Append(storage.route, StoredCity(name, c[1], c[2])),
                              storage.kept, Append(storage.since, name))
    /\ UNCHANGED storageFrame

\* update_city_coordinates(index, lat, lon): inside the range the entry gets the
\* coordinates and the route is saved; outside nothing is done
UpdateCityCoordinates ==
    /\ storage.made /\ storage.ops < MaxStorageOps
    /\ \E index \in StorageIndexes, c \in StorageCoords :
         IF index_in_range(index, Len(storage.route))
                /\ ListPos(index, Len(storage.route)) \in 1..Len(storage.route)
         THEN storage' = AfterSave(storage, "update_city_coordinates", index,
                                   [storage.route EXCEPT
                                      ![ListPos(index, Len(storage.route))].latitude = c[1],
                                      ![ListPos(index, Len(storage.route))].longitude = c[2]],
                                   storage.kept, storage.since)
         ELSE IF index_in_range(index, Len(storage.route))
         THEN storage' = [storage EXCEPT !.ops = @ + 1,
                                         !.last = [name |-> "update_city_coordinates",
                                                   index |-> index, raised |-> "IndexError"]]
         ELSE storage' = [storage EXCEPT !.ops = @ + 1,
                                         !.last = [name |-> "update_city_coordinates",
                                                   index |-> index, raised |-> NoneStr]]
    /\ UNCHANGED storageFrame

\* clear_route(): self.route = [], then save_route
ClearRoute ==
    /\ storage.made /\ storage.ops < MaxStorageOps
    /\ storage' = AfterSave(storage, "clear_route", 0, <<>>, <<>>, <<>>)
    /\ UNCHANGED storageFrame

\* get_route(): self.route.copy(), a new list of the same entries
GetRoute ==
    /\ storage.made /\ ~storage.handed
    /\ storage' = [storage EXCEPT !.handed = TRUE, !.returned = storage.route,
                                  !.last = [name |-> "get_route", index |-> 0,
                                            raised |-> NoneStr]]
    /\ UNCHANGED storageFrame

\* the caller appends to the list it was handed, or clears it
CallerChangesList ==
    /\ storage.made /\ storage.handed
    /\ storage.last.name # "caller"
    /\ \E clear \in BOOLEAN :
         storage' = [storage EXCEPT
                       !.returned = IF clear THEN <<>>
                                    ELSE Append(@, StoredCity("C", NoNum, NoNum)),
                       !.last = [name |-> "caller", index |-> 0, raised |-> NoneStr]]
    /\ UNCHANGED storageFrame

(***************************************************************************)
(* app.py: request parsing, route building and the two handlers            *)
(***************************************************************************)
\* a numeric option of the payload: absent (None or ""), a number, a text that is no
\* number ("abc"), or the JSON number 1e999, which json.loads reads as float infinity
Absent == [kind |-> "absent", value |-> 0]
Num(v) == [kind |-> "number", value |-> v]
Text == [kind |-> "text", value |-> 0]
Infinite == [kind |-> "infinite", value |-> 0]

NoPayload == [cities |-> <<>>, dpi |-> Absent, line_width |-> Absent, point_size |-> Absent,
              signature_scale |-> Absent, paper_format |-> NoneStr,
              signature_enabled |-> FALSE, show_borders |-> FALSE]
NoRequest == [n |-> 0, handler |-> "none", payload |-> NoPayload, labels |-> <<>>,
              final |-> FALSE, hidden_labels |-> {}]
NoResponse == [status |-> 0, structured |-> FALSE, success |-> FALSE, error |-> NoneStr,
               warnings |-> <<>>, cities |-> <<>>, map |-> EmptyInfo,
               paper_orientation |-> NoneStr]

\* value.strip() on the names of the model
Strip(value) ==
    CASE value = " A " -> "A"
      [] value = " " -> ""
      [] OTHER -> value
NonBlank(value) == Strip(value) # ""

\* _normalize_cities: blank entries dropped, the others stripped
normalize_cities(cities_raw) ==
    LET kept == SelectSeq(cities_raw, NonBlank)
    IN  [i \in 1..Len(kept) |-> Strip(kept[i])]

\* what the geocoding service knows: name -> (latitude, longitude); "Z" is unknown to it
Gazetteer ==
    ( "A" :> <<0, 0>>
   @@ "B" :> <<1000, 3000>>
   @@ "C" :> <<1000, 1000>> )

\* Geocoder.get_coordinates: the coordinates when the service answers and knows the
\* name, None when it does not know it or does not answer
get_coordinates(city_name, answered) ==
    IF answered /\ city_name \in DOMAIN Gazetteer THEN Some(Gazetteer[city_name]) ELSE NoNum

Lookup(city_name, coords) == [city |-> city_name, found |-> ~IsNone(coords)]
RoutePoint(city_name, coords) ==
    [name |-> city_name, latitude |-> Some(Val(coords)[1]),
     longitude |-> Some(Val(coords)[2])]

\* one iteration of the loop of _build_route that keeps an unresolved city as a point
\* without coordinates
build_route_keeping_unresolved(acc, city, coords) ==
    [route |-> Append(acc.route,
                      IF ~IsNone(coords) THEN RoutePoint(city, coords)
                      ELSE [name |-> city, latitude |-> NoNum, longitude |-> NoNum]),
     warnings |-> IF ~IsNone(coords) THEN acc.warnings ELSE Append(acc.warnings, city),
     lookups |-> Append(acc.lookups, Lookup(city, coords))]

\* one iteration of the loop of _build_route: the city is appended to the route when
\* the lookup gave coordinates, else a warning, modelled by the name it is about
build_route_step(acc, city, coords) ==
    [route |-> IF ~IsNone(coords) THEN Append(acc.route, RoutePoint(city, coords))
               ELSE acc.route,
     warnings |-> IF ~IsNone(coords) THEN acc.warnings ELSE Append(acc.warnings, city),
     lookups |-> Append(acc.lookups, Lookup(city, coords))]

\* _build_route up to city i; answers[i] tells whether the service answers the lookup
\* of cities[i]
RECURSIVE build_route_upto(_, _, _)
build_route_upto(cities, answers, i) ==
    IF i = 0 THEN [route |-> <<>>, warnings |-> <<>>, lookups |-> <<>>]
    ELSE build_route_step(build_route_upto(cities, answers, i - 1), cities[i],
                          get_coordinates(cities[i], answers[i]))

build_route(cities, answers) == build_route_upto(cities, answers, Len(cities))

\* int(raw) / float(raw) under "except (TypeError, ValueError)": "parsed", "invalid"
\* (the exception is caught) or "OverflowError" (int(inf), which is not caught)
int_option(opt) ==
    CASE opt.kind \in {"absent", "number"} -> "parsed"
      [] opt.kind = "text" -> "invalid"
      [] OTHER -> "OverflowError"
float_option(opt) == IF opt.kind = "text" THEN "invalid" ELSE "parsed"

\* max(2.0, min(value, 50.0)) / 100.0, in per-mille; None when the option is absent
signature_scale_option(opt) ==
    CASE opt.kind = "absent" -> NoNum
      [] opt.kind = "infinite" -> Some(500)
      [] OTHER -> Some(Max2(2, Min2(opt.value, 50)) * 10)

\* paper_format.strip().upper() on the identifiers of the model
Upper(value) == IF value = "postcard" THEN "POSTCARD" ELSE value

NoOptions == [paper_format |-> NoneStr, dpi |-> 300, show_borders |-> FALSE,
              signature_enabled |-> FALSE, signature_path |-> NoneStr,
              signature_scale |-> NoNum]

Failed(message, raised) ==
    [error |-> message, raised |-> raised, route |-> <<>>, warnings |-> <<>>,
     options |-> NoOptions, lookups |-> <<>>]

\* the end of _prepare_generation, after _build_route gave rw
prepared(payload, rw) ==
    IF Len(rw.route) = 0
    THEN [Failed("no_valid_cities", NoneStr) EXCEPT !.lookups = rw.lookups]
    ELSE [error |-> NoneStr, raised |-> NoneStr, route |-> rw.route,
          warnings |-> rw.warnings,
          options |-> [paper_format |-> Upper(payload.paper_format),
                       dpi |-> IF payload.dpi.kind = "number" /\ payload.dpi.value # 0
                               THEN payload.dpi.value ELSE 300,
                       show_borders |-> payload.show_borders,
                       signature_enabled |-> payload.signature_enabled,
                       signature_path |-> IF payload.signature_enabled
                                          THEN DefaultSignature ELSE NoneStr,
                       signature_scale |-> signature_scale_option(payload.signature_scale)],
          lookups |-> rw.lookups]

\* _prepare_generation: the cities, then dpi, line width, point size and signature
\* scale in that order, then the lookups of _build_route
prepare_generation(payload, answers) ==
    LET cities == normalize_cities(payload.cities)
    IN  IF Len(cities) = 0 THEN Failed("no_cities", NoneStr)
        ELSE IF int_option(payload.dpi) = "OverflowError" THEN Failed(NoneStr, "OverflowError")
        ELSE IF int_option(payload.dpi) = "invalid" THEN Failed("dpi_not_integer", NoneStr)
        ELSE IF float_option(payload.line_width) = "invalid"
        THEN Failed("line_width_not_number", NoneStr)
        ELSE IF float_option(payload.point_size) = "invalid"
        THEN Failed("point_size_not_number", NoneStr)
        ELSE IF float_option(payload.signature_scale) = "invalid"
        THEN Failed("signature_scale_not_number", NoneStr)
        ELSE prepared(payload, build_route(cities, answers))

\* _create_map: a new generator of the class of the paper format, one generate_map call
create_map(rt, options, overrides, rl, filename, hidden, net, fs) ==
    LET posters == {c \in PosterClasses : FORMAT_ID(c) = options.paper_format}
        cls == IF posters # {} THEN CHOOSE c \in posters : TRUE ELSE "MapGenerator"
        kw == [paper_format |-> IF posters # {} \/ options.paper_format = "POSTCARD"
                                THEN options.paper_format ELSE NoneStr,
               dpi |-> options.dpi,
               show_borders |-> options.show_borders,
               signature_enabled |-> options.signature_enabled,
               signature_path |-> options.signature_path,
               signature_scale |-> options.signature_scale]
    IN  GenerateMapEffect(NewGenerator(cls, kw, fs), rt, filename, overrides, rl, hidden,
                          Env(NoNum, NoneStr, net, fs))

\* a label entry whose dx or dy is no number ("abc", a list): float() raises on it
Malformed(entry) == "malformed" \in DOMAIN entry

\* the loop of apply_labels over the submitted labels from entry i on: set_override for
\* every entry that names a city; `overrides` is what the last set_override returned;
\* the loop is left by the ValueError or TypeError of float() on a malformed entry
RECURSIVE apply_label_entries(_, _, _, _, _, _)
apply_label_entries(st, writable, labels, i, overrides, logged) ==
    IF i > Len(labels)
    THEN [store |-> st, overrides |-> overrides, logged |-> logged, raised |-> NoneStr]
    ELSE IF labels[i].city = ""
    THEN apply_label_entries(st, writable, labels, i + 1, overrides, logged)
    ELSE IF Malformed(labels[i])
    THEN [store |-> st, overrides |-> overrides, logged |-> logged, raised |-> "ValueError"]
    ELSE LET r == set_override(st, writable, labels[i].city, labels[i].dx, labels[i].dy)
         IN  apply_label_entries(r.store, writable, labels, i + 1, r.data,
                                 logged + r.logged)

JsonError(status, message) ==
    [NoResponse EXCEPT !.status = status, !.structured = TRUE, !.error = message]
\* an exception that leaves the handler: the framework answers 500 without a JSON body
Unhandled(exception) == [NoResponse EXCEPT !.status = 500, !.error = exception]
\* paper_metadata of the poster classes: the orientation each class reports
paper_metadata_orientation(cls) ==
    IF cls \in {"LandscapePosterMapGenerator", "LandscapeLargePosterMapGenerator"}
    THEN "landscape" ELSE "portrait"

\* map_info["paper_orientation"] as _create_map sets it: from the class of a poster
\* format, "portrait" for POSTCARD, "auto" for every other format
paper_orientation(options) ==
    LET posters == {c \in PosterClasses : FORMAT_ID(c) = options.paper_format}
    IN  IF posters # {} THEN paper_metadata_orientation(CHOOSE c \in posters : TRUE)
        ELSE IF options.paper_format = "POSTCARD" THEN "portrait"
        ELSE "auto"

Success(status, p, info) ==
    [status |-> status, structured |-> TRUE, success |-> TRUE, error |-> NoneStr,
     warnings |-> p.warnings, cities |-> [i \in 1..Len(p.route) |-> p.route[i].name],
     map |-> info, paper_orientation |-> paper_orientation(p.options)]

FigureLeak(r) == IF r.created /\ ~r.closed THEN 1 ELSE 0

\* a request answered without a render
Answered(req, p, resp) ==
    /\ request' = req
    /\ response' = resp
    /\ geo_lookups' = p.lookups
    /\ UNCHANGED <<auxVars, renders, storeVars, renderVars, curveVars, placeVars, sessionVars>>

\* handler generate_map after _prepare_generation gave p and the preview render gave r
GenerateRendered(req, p, r) ==
    /\ request' = req
    /\ response' = IF r.outcome = "returned" THEN Success(201, p, r.info)
                   ELSE Unhandled(r.outcome)
    /\ geo_lookups' = p.lookups
    /\ renders' = renders + 1
    /\ open_figures' = open_figures + FigureLeak(r)
    /\ saved_files' = saved_files \cup r.written
    /\ printed' = printed \cup r.printed
    /\ fetches' = fetches + r.fetched
    /\ UNCHANGED <<auxVars, storeVars, gen, route, output_file, label_overrides, render_labels,
                   hidden_labels, outcome, map_info, ax, curveVars, placeVars,
                   border_shapes_cache, border_error, files, calls, prev_call>>

\* the network outcomes of the renders of one request
NetChoices(payload) ==
    IF payload.show_borders THEN NetworkOutcomes \X NetworkOutcomes
    ELSE {<<"shapes", "shapes">>}

MaxRequests == 2

GeneratePrepared(req, p, net) ==
    IF p.raised # NoneStr THEN Answered(req, p, Unhandled(p.raised))
    ELSE IF p.error # NoneStr THEN Answered(req, p, JsonError(400, p.error))
    ELSE GenerateRendered(req, p,
                          create_map(p.route, p.options, load_overrides(store), FALSE,
                                     "map_preview.png", {}, net[1], files))

\* the keys apply_labels copies from the final render into the preview's result
MergeFinal(preview_info, final_info) ==
    [preview_info EXCEPT !.figure = final_info.figure, !.bounds = final_info.bounds,
                         !.style = final_info.style, !.labels = final_info.labels]

\* handler apply_labels after the overrides were stored (w) and the renders were made:
\* first is the only render of a final request, else the preview followed by second
ApplyRendered(req, p, w, first, second) ==
    /\ request' = req
    /\ response' =
          IF first.outcome # "returned" THEN JsonError(500, "label_apply_failed")
          ELSE IF req.final THEN Success(200, p, first.info)
          ELSE IF second.outcome # "returned" THEN JsonError(500, "label_apply_failed")
          ELSE Success(200, p, MergeFinal(first.info, second.info))
    /\ geo_lookups' = p.lookups
    /\ store' = w.store
    /\ store_log' = store_log + w.logged
    /\ renders' = renders + (IF req.final \/ first.outcome # "returned" THEN 1 ELSE 2)
    /\ open_figures' = open_figures + FigureLeak(first)
                          + (IF req.final \/ first.outcome # "returned" THEN 0
                             ELSE FigureLeak(second))
    /\ saved_files' = saved_files \cup first.written
                          \cup (IF req.final \/ first.outcome # "returned" THEN {}
                                ELSE second.written)
    /\ printed' = printed \cup first.printed
                      \cup (IF req.final \/ first.outcome # "returned" THEN {}
                            ELSE second.printed)
    /\ fetches' = fetches + first.fetched
                      + (IF req.final \/ first.outcome # "returned" THEN 0
                         ELSE second.fetched)
    /\ UNCHANGED <<auxVars, store_writable, last_op, gen, route, output_file, label_overrides,
                   render_labels, hidden_labels, outcome, map_info, ax, curveVars,
                   placeVars, border_shapes_cache, border_error, files, calls, prev_call>>

\* handler apply_labels when the loop over the labels raised: the except clause answers
\* 500; what set_override wrote before stays written
ApplyFailed(req, p, w) ==
    /\ request' = req
    /\ response' = JsonError(500, "label_apply_failed")
    /\ geo_lookups' = p.lookups
    /\ store' = w.store
    /\ store_log' = store_log + w.logged
    /\ UNCHANGED <<auxVars, renders, store_writable, last_op, renderVars, curveVars,
                   placeVars, sessionVars>>

\* apply_labels once _prepare_generation succeeded with p: the stores, then the renders
ApplyStored(req, p, w, net) ==
    IF w.raised # NoneStr THEN ApplyFailed(req, p, w)
    ELSE ApplyRendered(req, p, w,
                  create_map(p.route, p.options, w.overrides, req.final,
                             IF req.final THEN "map_final.png" ELSE "map_preview.png",
                             req.hidden_labels, net[1], files),
                  create_map(p.route, p.options, w.overrides, TRUE, "map_final.png",
                             req.hidden_labels, net[2], files))

ApplyPrepared(req, p, net) ==
    IF p.raised # NoneStr THEN Answered(req, p, Unhandled(p.raised))
    ELSE IF p.error # NoneStr THEN Answered(req, p, JsonError(400, p.error))
    ELSE ApplyStored(req, p,
                     apply_label_entries(store, store_writable, req.labels, 1,
                                         load_overrides(store), 0),
                     net)

(***************************************************************************)
(* Inputs: routes, overrides, hidden sets and generators of the model      *)
(***************************************************************************)
MaxRoute == 3
MaxSegRoute == 4

City(name, lat, lon) == [name |-> name, latitude |-> lat, longitude |-> lon]

\* cities as the geocoder resolved them; "A" is also stored with a second position,
\* and add_city stores a city whose lookup failed without coordinates
ValidPool == { City("A", Some(0), Some(0)),
               City("A", Some(2000), Some(1000)),
               City("B", Some(1000), Some(3000)),
               City("C", Some(1000), Some(1000)) }
MissingPool == { City("B", NoNum, NoNum), City("C", NoNum, Some(1000)) }
PointPool == ValidPool \cup MissingPool
SegmentPool == { City("A", Some(0), Some(0)),
                 City("B", Some(1000), Some(3000)),
                 City("C", Some(1000), Some(1000)) }

RoutesOver(pool, maxlen) == UNION {[1..n -> pool] : n \in 0..maxlen}

NoOverrides == [n \in {} |-> [dx |-> 0, dy |-> 0]]
OverridePool ==
    ( "A" :> [dx |-> 500, dy |-> -200]
   @@ "B" :> [dx |-> 0, dy |-> 0]
   @@ "C" :> [dx |-> -9000, dy |-> 4000] )
OverridesOn(S) == [n \in S |-> OverridePool[n]]
OverrideChoices == {OverridesOn(S) : S \in {{}, {"A"}, {"B", "C"}, {"A", "B", "C"}}}
HiddenChoices == {{}, {"A"}, {"B", "C"}}

NoKw == [k \in {} |-> 0]
NoFiles == {}
NoCall == [outcome |-> "none", info |-> EmptyInfo, render_labels |-> FALSE]
DefaultGenerators == {NewGenerator(cls, NoKw, NoFiles) : cls \in GeneratorClasses}
FormatChoices == DOMAIN PAPER_FORMATS \cup {"LETTER"}
PaperGenerators ==
    {NewGenerator("MapGenerator", [paper_format |-> f, lock_paper_orientation |-> l], NoFiles) :
        f \in FormatChoices \cup {NoneStr}, l \in BOOLEAN}
    \cup {NewGenerator(cls, [lock_paper_orientation |-> FALSE], NoFiles) : cls \in PosterClasses}
    \cup DefaultGenerators
SegmentGenerators ==
    {NewGenerator("MapGenerator", [merge_bidirectional_routes |-> m], NoFiles) : m \in BOOLEAN}
    \cup {NewGenerator("PosterMapGenerator", [merge_bidirectional_routes |-> m], NoFiles) :
            m \in BOOLEAN}

RenderIdle ==
    /\ outcome = "ready"
    /\ map_info = EmptyInfo
    /\ ax = EmptyAx
    /\ open_figures = 0
    /\ saved_files = {}
    /\ border_shapes_cache = NoNum
    /\ border_error = NoneStr
    /\ fetches = 0
    /\ printed = {}
    /\ calls = 0
    /\ prev_call = NoCall

\* no direct _apply_signature call, no concurrent caller, no geocoder call, no
\* StorageManager
AuxIdle ==
    /\ sig_call = NoSigCall
    /\ sig_box = NoBox
    /\ callers = NoCallers
    /\ geocoding = NoGeocoding
    /\ storage = NoStorage

Idle == RenderIdle /\ AuxIdle

\* no asset file on disk
NoAssets == files = NoFiles

\* no override stored, no store operation made
StoreIdle ==
    /\ store = AbsentFile
    /\ store_writable = TRUE
    /\ store_log = 0
    /\ last_op = NoOp

\* no request received
WebIdle ==
    /\ request = NoRequest
    /\ response = NoResponse
    /\ geo_lookups = <<>>
    /\ renders = 0

AppIdle == StoreIdle /\ WebIdle

CurveIdle ==
    /\ curve_call = NoCurveCall
    /\ curve = NoCurve

PlaceIdle ==
    /\ place_pc = "idle"
    /\ label_entries = <<>>
    /\ passes = 0
    /\ place_result = <<>>

\* label rendering: every kind of point, overrides and hidden names
InitLabels ==
    /\ gen \in DefaultGenerators
             \cup {NewGenerator("MapGenerator", [paper_format |-> "POSTCARD"], NoFiles)}
    /\ route \in RoutesOver(PointPool, MaxRoute)
    /\ label_overrides \in OverrideChoices
    /\ hidden_labels \in HiddenChoices
    /\ render_labels = TRUE
    /\ output_file = "map.png"

\* paper formats and margins: every format, locked and unlocked
InitPaper ==
    /\ gen \in PaperGenerators
    /\ route \in RoutesOver(ValidPool, MaxRoute)
    /\ label_overrides = NoOverrides
    /\ hidden_labels = {}
    /\ render_labels \in BOOLEAN
    /\ output_file \in {NoneStr, "map.png"}

\* connector bundles: longer routes over three cities
InitSegments ==
    /\ gen \in SegmentGenerators
    /\ route \in RoutesOver(SegmentPool, MaxSegRoute)
    /\ label_overrides = NoOverrides
    /\ hidden_labels = {}
    /\ render_labels = TRUE
    /\ output_file = "map.png"

Init == Idle /\ NoAssets /\ CurveIdle /\ PlaceIdle /\ AppIdle
        /\ (InitLabels \/ InitPaper \/ InitSegments)

Next == GenerateMap

Spec == Init /\ [][Next]_vars

(***************************************************************************)
(* Direct calls of _build_curve: points on a small grid, every occurrence  *)
(* index of bundles of up to MaxOccurrences segments.  The grid step is    *)
(* the tolerance of np.allclose (1e-8 degrees), so that neighbouring grid  *)
(* points are distinct points within the tolerance; the shape of a curve   *)
(* does not depend on the unit.                                            *)
(***************************************************************************)
MaxCoord == 2
MaxOccurrences == 3

GridPoints == (0..MaxCoord) \X (0..MaxCoord)

InitCurve ==
    /\ Idle
    /\ NoAssets
    /\ AppIdle
    /\ gen \in DefaultGenerators
    /\ route = <<>>
    /\ label_overrides = NoOverrides
    /\ hidden_labels = {}
    /\ render_labels = TRUE
    /\ output_file = NoneStr
    /\ PlaceIdle
    /\ curve = NoCurve
    /\ \E s \in GridPoints, e \in GridPoints, n \in 1..MaxOccurrences :
         \E k \in 0..(n - 1) :
           curve_call = [start |-> s, end |-> e, occurrence_idx |-> k,
                         total_occurrences |-> n]

NextCurve == BuildCurve

SpecCurve == InitCurve /\ [][NextCurve]_vars

(***************************************************************************)
(* Label placement: a render followed by a call of                         *)
(* _place_labels_with_collision_avoidance on its texts.  The cities lie on *)
(* one latitude, a few pixels apart, so that labels and lines crowd.       *)
(***************************************************************************)
PlacePool == { City("A", Some(0), Some(0)),
               City("A", Some(0), Some(100)),
               City("B", Some(0), Some(40)),
               City("C", Some(0), Some(20)) }
\* a route going to and fro between two near cities: every segment pushes their labels
CrowdedRoutes ==
    { << City("A", Some(0), Some(0)), City("B", Some(0), Some(40)),
         City("A", Some(0), Some(0)), City("B", Some(0), Some(40)),
         City("A", Some(0), Some(0)), City("B", Some(0), Some(40)) >> }
PlaceOverridePool ==
    ( "A" :> [dx |-> 10, dy |-> -6]
   @@ "B" :> [dx |-> 0, dy |-> 0]
   @@ "C" :> [dx |-> -30, dy |-> 40] )
PlaceOverrideChoices ==
    {[n \in S |-> PlaceOverridePool[n]] : S \in {{}, {"A"}, {"B", "C"}, {"A", "B", "C"}}}

InitPlace ==
    /\ Idle
    /\ NoAssets
    /\ AppIdle
    /\ CurveIdle
    /\ PlaceIdle
    /\ gen = NewGenerator("MapGenerator", NoKw, NoFiles)
    /\ route \in RoutesOver(PlacePool, MaxRoute) \cup CrowdedRoutes
    /\ label_overrides \in PlaceOverrideChoices
    /\ hidden_labels \in {{}, {"B"}}
    /\ render_labels = TRUE
    /\ output_file = "map.png"

NextPlace == GenerateMap \/ PlaceBegin \/ PlacePass \/ PlaceEnd

SpecPlace == InitPlace /\ [][NextPlace]_vars

(***************************************************************************)
(* Sessions: several generate_map calls on one generator instance, which   *)
(* keeps its border cache; the caller may switch render_labels between     *)
(* calls (preview, then final).  Borders, signature and output paths vary. *)
(***************************************************************************)
MaxCalls == 3

\* the caller starts another render of the same route on the same generator
CallAgain ==
    /\ outcome # "ready"
    /\ calls < MaxCalls
    /\ prev_call' = [outcome |-> outcome, info |-> map_info, render_labels |-> render_labels]
    /\ outcome' = "ready"
    /\ render_labels' \in BOOLEAN
    /\ UNCHANGED <<auxVars, gen, route, output_file, label_overrides, hidden_labels, map_info, ax,
                   open_figures, saved_files, curveVars, placeVars, border_shapes_cache,
                   border_error, fetches, printed, files, calls, appVars>>

SessionPool == { City("A", Some(0), Some(0)),
                 City("B", Some(1000), Some(3000)),
                 City("B", NoNum, NoNum) }
FileChoices == {{}, {DefaultSignature}, {"sig.png"}, {"sig.png", "notes.txt"}}

\* renders with country borders, previews and finals
InitBorders ==
    /\ files = NoFiles
    /\ gen \in {NewGenerator(cls, [show_borders |-> b], NoFiles) :
                  cls \in {"MapGenerator", "PosterMapGenerator"}, b \in BOOLEAN}
    /\ route \in RoutesOver(SessionPool, 2)
    /\ label_overrides \in {NoOverrides, OverridesOn({"A"})}
    /\ hidden_labels \in {{}, {"B"}}
    /\ render_labels \in BOOLEAN
    /\ output_file = "map.png"

\* renders with a signature: the asset files that exist when the generator is built
\* and when it renders, the path given, and where the map is saved
InitSignature ==
    /\ files \in FileChoices
    /\ \E built \in FileChoices :
         gen \in {NewGenerator("MapGenerator", [signature_enabled |-> e], built) :
                    e \in BOOLEAN}
            \cup {NewGenerator("MapGenerator",
                               [signature_enabled |-> TRUE, signature_path |-> sp], built) :
                    sp \in {"sig.png", "notes.txt"}}
    /\ route \in {<<>>, <<City("A", Some(0), Some(0))>>,
                  <<City("A", Some(0), Some(0)), City("B", Some(1000), Some(3000))>>}
    /\ label_overrides = NoOverrides
    /\ hidden_labels = {}
    /\ render_labels = TRUE
    /\ output_file \in {NoneStr, "map.png", "map.pdf", "nodir/map.png"}

InitSession == Idle /\ CurveIdle /\ PlaceIdle /\ AppIdle /\ (InitBorders \/ InitSignature)

NextSession == GenerateMap \/ CallAgain

SpecSession == InitSession /\ [][NextSession]_vars

(***************************************************************************)
(* Properties of generate_map                                              *)
(***************************************************************************)
Called == outcome # "ready"
Returned == outcome = "returned"
Raised == outcome \notin {"ready", "returned", "returned_none"}
RouteIdx == 1..Len(route)
SomeMissing == \E i \in RouteIdx : ~HasCoords(route[i])
SomeValid == \E i \in RouteIdx : HasCoords(route[i])
ValidLats == {Val(route[i].latitude) : i \in {j \in RouteIdx : HasCoords(route[j])}}
ValidLons == {Val(route[i].longitude) : i \in {j \in RouteIdx : HasCoords(route[j])}}
LatSpan == SetMax(ValidLats) - SetMin(ValidLats)
LonSpan == SetMax(ValidLons) - SetMin(ValidLons)

\* C2 as stated: generate_map on a route without any valid point fails with an error
\* reported to the caller (here: any exception leaving the call counts), creates no
\* figure and writes no file, for every generator variant.
C2_NoValidPointFails ==
    (Called /\ ~SomeValid) =>
        /\ Raised
        /\ open_figures = 0
        /\ ax = EmptyAx
        /\ saved_files = {}

\* C3 as stated: generate_map on a route with a point that misses a coordinate and
\* at least one valid point completes, and labels, markers and segments come only
\* from points that have both coordinates.
C3_MissingPointIsSkipped ==
    (Called /\ SomeMissing /\ SomeValid) =>
        /\ Returned
        /\ \A k \in 1..Len(map_info.labels) :
             \E i \in RouteIdx :
                /\ HasCoords(route[i])
                /\ route[i].name = map_info.labels[k].name
                /\ Val(route[i].longitude) = map_info.labels[k].anchor_lon
                /\ Val(route[i].latitude) = map_info.labels[k].anchor_lat
        /\ \A k \in 1..Len(ax.points) :
             ax.points[k][1] \in ValidLons /\ ax.points[k][2] \in ValidLats
        /\ \A k \in 1..Len(ax.lines) :
             /\ ax.lines[k].start[1] \in ValidLons /\ ax.lines[k].start[2] \in ValidLats
             /\ ax.lines[k].end[1] \in ValidLons /\ ax.lines[k].end[2] \in ValidLats

\* the margin policy of the generator: minimum margin (halved for postcards) and
\* the margin of one axis
MinMarginOf(self) ==
    IF self.paper_format = "POSTCARD" THEN self.min_margin_deg \div 2
    ELSE self.min_margin_deg
MarginOf(self, span, permille) == Max2(MinMarginOf(self), (span * permille) \div 1000)

\* C4: for every non-empty set of valid points the returned bounds are
\* min - m and max + m per axis with m = max(min_margin, span * margin_factor) of
\* that axis, every valid point lies strictly inside them, and for a single valid
\* point the margin is min_margin on both axes.
C4_BoundsContainPoints ==
    Returned =>
        LET b == map_info.bounds
            m_lat == MarginOf(gen, LatSpan, margin_factor_lat(gen))
            m_lon == MarginOf(gen, LonSpan, margin_factor_lon(gen))
        IN  /\ b.lon_min = SetMin(ValidLons) - m_lon
            /\ b.lon_max = SetMax(ValidLons) + m_lon
            /\ b.lat_min = SetMin(ValidLats) - m_lat
            /\ b.lat_max = SetMax(ValidLats) + m_lat
            /\ \A x \in ValidLons : b.lon_min < x /\ x < b.lon_max
            /\ \A y \in ValidLats : b.lat_min < y /\ y < b.lat_max
            /\ Len(ValidCities(route)) = 1 =>
                  /\ SetMin(ValidLons) - b.lon_min = MinMarginOf(gen)
                  /\ b.lat_max - SetMax(ValidLats) = MinMarginOf(gen)
            /\ ax.xlim = <<b.lon_min, b.lon_max>>
            /\ ax.ylim = <<b.lat_min, b.lat_max>>

C4_Witness ==
    /\ Returned
    /\ gen.cls = "PosterMapGenerator"
    /\ LonSpan = 3000
    /\ LatSpan = 1000
    /\ map_info.bounds.lon_min = -240
    /\ map_info.bounds.lat_max = 1050

\* the consecutive pairs of valid points
ValidRoute == ValidCities(route)
SegIdx == 1..(Len(ValidRoute) - 1)
UnorderedPair(i) == {ValidRoute[i].name, ValidRoute[i + 1].name}
OrderedPair(i) == <<ValidRoute[i].name, ValidRoute[i + 1].name>>

\* C5: with merge_bidirectional_routes, exactly one curve is drawn per unordered pair
\* of endpoint names: the first segment of the pair in route order, drawn with
\* total_occurrences = 1; every later segment of the pair, in either direction, is
\* suppressed.
C5_OneCurvePerUnorderedPair ==
    (Returned /\ gen.merge_bidirectional_routes) =>
        /\ Len(ax.lines) = Cardinality({UnorderedPair(i) : i \in SegIdx})
        /\ \A i \in SegIdx :
             LET first == \A j \in SegIdx : UnorderedPair(j) = UnorderedPair(i) => i <= j
                 shown == \E k \in 1..Len(ax.lines) : ax.lines[k].i = i
             IN  first <=> shown
        /\ \A k \in 1..Len(ax.lines) :
             /\ ax.lines[k].total_occurrences = 1
             /\ ax.lines[k].occurrence_idx = 0
             /\ ax.lines[k].start_name = ValidRoute[ax.lines[k].i].name
             /\ ax.lines[k].end_name = ValidRoute[ax.lines[k].i + 1].name

C5_Witness ==
    /\ Returned
    /\ gen.merge_bidirectional_routes
    /\ Len(ValidRoute) = 4
    /\ UnorderedPair(1) = UnorderedPair(2)
    /\ UnorderedPair(2) = UnorderedPair(3)
    /\ ValidRoute[1].name # ValidRoute[2].name
    /\ Len(ax.lines) = 1

\* C8: without merging, every segment is drawn and segments are bundled by their
\* ordered (start, end) pair: the segments of a pair occurring N times carry the
\* indices 0..N-1 in route order and total_occurrences = N, so
\* occurrence_idx < total_occurrences, and A->B never shares a bundle with B->A.
C8_OrderedBundles ==
    (Returned /\ ~gen.merge_bidirectional_routes) =>
        /\ Len(ax.lines) = Max2(Len(ValidRoute) - 1, 0)
        /\ \A i \in SegIdx :
             /\ ax.lines[i].i = i
             /\ ax.lines[i].occurrence_idx
                  = Cardinality({j \in SegIdx : j < i /\ OrderedPair(j) = OrderedPair(i)})
             /\ ax.lines[i].total_occurrences
                  = Cardinality({j \in SegIdx : OrderedPair(j) = OrderedPair(i)})
             /\ ax.lines[i].occurrence_idx < ax.lines[i].total_occurrences

C8_Witness ==
    /\ Returned
    /\ ~gen.merge_bidirectional_routes
    /\ Len(ValidRoute) = 4
    /\ ValidRoute[1].name # ValidRoute[2].name
    /\ OrderedPair(1) = OrderedPair(3)
    /\ ax.lines[3].occurrence_idx = 1
    /\ ax.lines[3].total_occurrences = 2
    /\ ax.lines[2].total_occurrences = 1

\* C9: for every catalog format the canvas is the catalog (width, height), swapped
\* exactly when the orientation is not locked and the spans contradict the format
\* (lon_span > lat_span with width < height, or lon_span < lat_span with
\* width > height); so its aspect ratio is width_mm / height_mm or the inverse.
C9_CanvasOrientation ==
    (Returned /\ gen.paper_format \in DOMAIN PAPER_FORMATS) =>
        LET w == PAPER_FORMATS[gen.paper_format].width_mm
            h == PAPER_FORMATS[gen.paper_format].height_mm
            swap == /\ ~gen.lock_paper_orientation
                    /\ \/ (LonSpan > LatSpan /\ w < h)
                       \/ (LonSpan < LatSpan /\ w > h)
            canvas == map_info.figure.figsize
        IN  /\ canvas = IF swap THEN <<10 * h, 10 * w>> ELSE <<10 * w, 10 * h>>
            /\ \/ canvas[1] * h = canvas[2] * w
               \/ canvas[1] * w = canvas[2] * h

C9_Witness ==
    /\ Returned
    /\ gen.paper_format = "A4"
    /\ ~gen.lock_paper_orientation
    /\ LonSpan > LatSpan
    /\ map_info.figure.figsize = <<2970, 2100>>

\* the names of the route that are not hidden, and where each first occurs
VisibleNames == {route[i].name : i \in RouteIdx} \ hidden_labels
FirstIndex(name) == SetMin({i \in RouteIdx : route[i].name = name})

\* C10: the placed labels returned are exactly one per distinct name of the route
\* that is not hidden, taken at the first occurrence of the name and listed in
\* first-occurrence order; no name twice, no hidden name.
C10_OneLabelPerVisibleName ==
    Returned =>
        LET L == map_info.labels
        IN  /\ {L[k].name : k \in 1..Len(L)} = VisibleNames
            /\ Len(L) = Cardinality(VisibleNames)
            /\ \A k \in 1..Len(L) : \A l \in 1..Len(L) :
                 k < l => FirstIndex(L[k].name) < FirstIndex(L[l].name)
            /\ \A k \in 1..Len(L) :
                 /\ L[k].anchor_lon = Val(route[FirstIndex(L[k].name)].longitude)
                 /\ L[k].anchor_lat = Val(route[FirstIndex(L[k].name)].latitude)

C10_Witness ==
    /\ Returned
    /\ Len(map_info.labels) = 1
    /\ \E i \in RouteIdx : \E j \in RouteIdx :
         i < j /\ route[i].name = route[j].name /\ route[i] # route[j]
    /\ \E i \in RouteIdx : route[i].name \in hidden_labels

(***************************************************************************)
(* Properties of _build_curve                                              *)
(***************************************************************************)
Abs(x) == IF x < 0 THEN -x ELSE x
CurveBuilt == curve # NoCurve
Bent == CurveBuilt /\ ~curve.degenerate
\* the offset _build_curve gives occurrence k of the bundle of the call
OffsetOf(k) ==
    build_curve(gen, curve_call.start, curve_call.end, k,
                curve_call.total_occurrences).base_offset_num
\* the offset of a segment that is alone in its bundle
SingleOffset ==
    build_curve(gen, curve_call.start, curve_call.end, 0, 1).base_offset_num
\* distance of index k from the centre index of the bundle, in halves
FromCentre(k) == Abs(2 * k - (curve_call.total_occurrences - 1))

ReversedCurve == build_curve(gen, curve_call.end, curve_call.start, 0, 1)
Direction == VSub(curve_call.end, curve_call.start)

\* C7 as stated: for a single-occurrence segment between distinct points, sample i of
\* _build_curve(end, start, 0, 1) equals sample 49 - i of _build_curve(start, end, 0, 1).
C7_PointForPointReversal ==
    (Bent /\ curve_call.total_occurrences = 1) =>
        \A k \in 1..Samples : ReversedCurve.points[k] = curve.points[Samples + 1 - k]

\* q is the reflection of p in the line through start and end (points over SampleDen)
IsReflection(p, q) ==
    /\ Dot(VSub(q, p), Direction) = 0
    /\ Cross(VSub(VAdd(p, q), VMul(2 * SampleDen, curve_call.start)), Direction) = 0

\* C7 amended: for a single-occurrence segment between distinct points, sample i of the
\* reversed curve is the reflection, in the straight line through start and end, of
\* sample 49 - i of the original curve; the two samples coincide only at the end
\* points (i = 0 and i = 49).
C7_MirrorInChord ==
    (Bent /\ curve_call.total_occurrences = 1) =>
        \A k \in 1..Samples :
            /\ IsReflection(curve.points[Samples + 1 - k], ReversedCurve.points[k])
            /\ (ReversedCurve.points[k] = curve.points[Samples + 1 - k])
                  <=> (k \in {1, Samples})

C7_Witness ==
    /\ Bent
    /\ curve_call.total_occurrences = 1
    /\ Direction[1] # 0
    /\ Direction[2] # 0
    /\ Direction[1] # Direction[2]
    /\ ReversedCurve.points[2] # curve.points[Samples - 1]

(***************************************************************************)
(* Properties of locked labels                                             *)
(***************************************************************************)
OverrideOf(name) == <<label_overrides[name].dx, label_overrides[name].dy>>
AnchorOf(name) ==
    <<Val(route[FirstIndex(name)].longitude), Val(route[FirstIndex(name)].latitude)>>
Overridden(name) == name \in DOMAIN label_overrides

NoRender ==
    /\ gen = NewGenerator("MapGenerator", NoKw, NoFiles)
    /\ route = <<>>
    /\ label_overrides = NoOverrides
    /\ hidden_labels = {}
    /\ render_labels = FALSE
    /\ output_file = NoneStr

StoreChoices == {AbsentFile, CorruptFile, StoreFile(EmptyMapping),
                 StoreFile(OverridesOn({"A"})), StoreFile(OverridesOn({"A", "B"}))}

InitStore ==
    /\ Idle /\ NoAssets /\ CurveIdle /\ PlaceIdle /\ NoRender /\ WebIdle
    /\ store \in StoreChoices
    /\ store_writable \in BOOLEAN
    /\ store_log = 0
    /\ last_op = NoOp

NextStore == UpdateOverride \/ SetOverride \/ ResetOverride

SpecStore == InitStore /\ [][NextStore]_vars

(***************************************************************************)
(* The web application: requests to /api/generate and /api/labels/apply    *)
(***************************************************************************)
CityLists == {<<>>, <<" ">>, <<"A">>, <<"Z">>, <<"A", "B">>, <<"A", "Z", "B">>,
              <<" A ", "", "A">>}

\* payloads that differ from the plain one in one option
OptionVariants ==
    {NoPayload}
    \cup {[NoPayload EXCEPT !.dpi = v] : v \in {Num(150), Text, Infinite}}
    \cup {[NoPayload EXCEPT !.line_width = v] : v \in {Num(2), Text}}
    \cup {[NoPayload EXCEPT !.point_size = v] : v \in {Text, Infinite}}
    \cup {[NoPayload EXCEPT !.signature_scale = v] : v \in {Num(30), Text}}
    \cup {[NoPayload EXCEPT !.paper_format = f] :
            f \in {"POSTER_50X70", "POSTER_70X50", "postcard", "LETTER"}}
    \cup {[NoPayload EXCEPT !.signature_enabled = TRUE],
          [NoPayload EXCEPT !.show_borders = TRUE]}

\* the forms a client submits: every city list with plain options, every option variant
\* with the cities A, B
Payloads ==
    {[NoPayload EXCEPT !.cities = c] : c \in CityLists}
    \cup {[o EXCEPT !.cities = <<"A", "B">>] : o \in OptionVariants}

\* forms with no city or with a malformed numeric option
BadPayloads ==
    {NoPayload}
    \cup {[NoPayload EXCEPT !.cities = <<"A", "B">>, !.dpi = v] : v \in {Text, Infinite}}
    \cup {[NoPayload EXCEPT !.cities = <<"A", "B">>, !.signature_scale = Text],
          [NoPayload EXCEPT !.cities = <<"A", "B">>, !.line_width = Text]}

\* what a client makes of the labels of a result to have them stored
LabelsOf(labels) ==
    [i \in 1..Len(labels) |-> [city |-> labels[i].name, dx |-> labels[i].dx,
                               dy |-> labels[i].dy]]

Submission(labels, final, hidden) == [labels |-> labels, final |-> final, hidden |-> hidden]

\* what a client submits to /api/labels/apply: labels of its own, or the labels of the
\* last response
Submissions ==
    { Submission(<<>>, FALSE, {}),
      Submission(<<[city |-> "A", dx |-> 500, dy |-> -200]>>, TRUE, {}),
      Submission(<<[city |-> "", dx |-> 0, dy |-> 0],
                   [city |-> "B", dx |-> -1000, dy |-> 0]>>, FALSE, {"B"}),
      Submission(<<[city |-> "A", dx |-> 0, dy |-> 300],
                   [city |-> "B", dx |-> 200, dy |-> 200]>>, TRUE, {}),
      Submission(<<[city |-> "B", dx |-> 700, dy |-> 0],
                   [city |-> "A", dx |-> 0, dy |-> 0, malformed |-> TRUE]>>, FALSE, {}),
      Submission(LabelsOf(response.map.labels), TRUE, {}),
      Submission(LabelsOf(response.map.labels), FALSE, {}),
      Submission(LabelsOf(response.map.labels), TRUE, {"B"}) }

\* POST /api/generate
HandleGenerate ==
    /\ request.n < MaxRequests
    /\ \E payload \in Payloads :
       \E answers \in [1..Len(normalize_cities(payload.cities)) -> BOOLEAN] :
       \E net \in NetChoices(payload) :
         GeneratePrepared([NoRequest EXCEPT !.n = request.n + 1,
                                            !.handler = "generate_map",
                                            !.payload = payload],
                          prepare_generation(payload, answers), net)

\* POST /api/labels/apply, with the form of the last request or a malformed one
HandleApply ==
    /\ request.n < MaxRequests
    /\ \E payload \in {request.payload} \cup BadPayloads, sub \in Submissions :
       \E answers \in [1..Len(normalize_cities(payload.cities)) -> BOOLEAN] :
       \E net \in NetChoices(payload) :
         ApplyPrepared([n |-> request.n + 1, handler |-> "apply_labels",
                        payload |-> payload, labels |-> sub.labels, final |-> sub.final,
                        hidden_labels |-> sub.hidden],
                       prepare_generation(payload, answers), net)

InitApp ==
    /\ Idle /\ NoAssets /\ CurveIdle /\ PlaceIdle /\ NoRender /\ WebIdle
    /\ store \in {AbsentFile, StoreFile(OverridesOn({"A"}))}
    /\ store_writable \in BOOLEAN
    /\ store_log = 0
    /\ last_op = NoOp

NextApp == HandleGenerate \/ HandleApply

SpecApp == InitApp /\ [][NextApp]_vars

(***************************************************************************)
(* Properties of sessions                                                  *)
(***************************************************************************)
Repeated == Called /\ prev_call.outcome # "none"

\* C11: two generate_map calls on the same generator, route, overrides and hidden set
\* that differ only in render_labels end the same way and return identical label
\* lists (names, anchors, dx/dy, locked flags, relative positions) and identical
\* bounds.
C11_PreviewEqualsFinal ==
    (Repeated /\ prev_call.render_labels # render_labels) =>
        /\ outcome = prev_call.outcome
        /\ map_info.labels = prev_call.info.labels
        /\ map_info.bounds = prev_call.info.bounds

\* a final render after a preview, with a locked and an unlocked label
C11_Witness ==
    /\ Repeated
    /\ Returned
    /\ render_labels
    /\ ~prev_call.render_labels
    /\ \E k \in 1..Len(map_info.labels) : \E j \in 1..Len(map_info.labels) :
         /\ map_info.labels[k].locked
         /\ map_info.labels[k].dx # 0
         /\ ~map_info.labels[j].locked
         /\ map_info.labels[j].dy # 0
    /\ \A k \in 1..Len(ax.texts) : ax.texts[k].visible

(***************************************************************************)
(* Properties of the override store                                        *)
(***************************************************************************)
Loaded == load_overrides(store)
EntryOf(data, city) == DictGet(data, city, [dx |-> 0, dy |-> 0])

\* what load_overrides() must give after the operation last_op' when it gave `before`
Expected(before, op) ==
    CASE op.name = "set_override" -> DictSet(before, op.city, [dx |-> op.dx, dy |-> op.dy])
      [] op.name = "update_override" ->
            DictSet(before, op.city, [dx |-> EntryOf(before, op.city).dx + op.dx,
                                      dy |-> EntryOf(before, op.city).dy + op.dy])
      [] op.name = "reset_override" /\ op.city = NoneStr -> EmptyMapping
      [] OTHER -> DictPop(before, op.city)

OpStep == last_op'.n = last_op.n + 1

CallStep == calls' = calls + 1

C14_NoFigureLeftOpen == Called => open_figures = 0

SignatureSourceMissing == gen.signature_path = NoneStr \/ gen.signature_path \notin files
RasterUnreadable == ~IsImage(output_file)
ResultWarningSet == SeqToSet(map_info.warnings)

\* C16: a call with the signature enabled, a valid route and a writable output file, whose
\* signature image is missing (no path given and no default asset, or the given file
\* absent) or whose saved file cannot be opened as an image, returns, has saved the file,
\* and its result carries a signature warning that is also in the result's warnings list.
C16_MissingSignatureWarns ==
    ( /\ Called
      /\ gen.signature_enabled
      /\ SomeValid /\ ~SomeMissing
      /\ output_file # NoneStr /\ Writable(output_file)
      /\ SignatureSourceMissing \/ RasterUnreadable )
    => /\ Returned
       /\ output_file \in saved_files
       /\ map_info.signature.present
       /\ map_info.signature.warning # NoneStr
       /\ map_info.signature.warning \in ResultWarningSet

UnknownFormat ==
    gen.paper_format # NoneStr /\ gen.paper_format \notin DOMAIN PAPER_FORMATS

\* C17: a call on a generator with an unknown paper format returns, its canvas is the
\* default figsize, unswapped, and its result's warnings list holds a warning about
\* the unknown format.
C17_UnknownFormatWarns ==
    (Called /\ UnknownFormat /\ SomeValid /\ ~SomeMissing)
    => /\ Returned
       /\ map_info.figure.figsize = gen.figsize
       /\ "unknown_paper_format" \in ResultWarningSet

(***************************************************************************)
(* Properties of the web application                                       *)
(***************************************************************************)
RequestStep == request'.n = request.n + 1
Names(lookups) == [i \in 1..Len(lookups) |-> lookups[i].city]
Found(lookup) == lookup.found
NotFound(lookup) == ~lookup.found

\* C18: when a request reaches _build_route, every city of the normalised list is looked
\* up once, in order; the route is the cities whose lookup gave coordinates, in their
\* order and with duplicates, there is one warning per other city, and the two lengths
\* add up to the number of cities; when no lookup gave coordinates the answer is the
\* error 400 "no valid cities" and no render is started.  The route and the warnings are
\* read from the answer, which carries them unless storing the labels failed.
C18_RouteKeepsResolvedCities ==
    [][(RequestStep /\ geo_lookups' # <<>>) =>
         /\ Names(geo_lookups') = normalize_cities(request'.payload.cities)
         /\ SelectSeq(geo_lookups', Found) # <<>> =>
               /\ response'.success \/ response' = JsonError(500, "label_apply_failed")
               /\ response'.success =>
                     /\ response'.cities = Names(SelectSeq(geo_lookups', Found))
                     /\ response'.warnings = Names(SelectSeq(geo_lookups', NotFound))
                     /\ Len(response'.cities) + Len(response'.warnings)
                          = Len(normalize_cities(request'.payload.cities))
                     /\ renders' > renders
         /\ SelectSeq(geo_lookups', Found) = <<>> =>
               /\ response' = JsonError(400, "no_valid_cities")
               /\ renders' = renders
               /\ saved_files' = saved_files]_vars

\* of the cities A, Z, B only A was resolved: Z is unknown, the lookup of B failed
C18_Witness ==
    /\ response.success
    /\ response.cities = <<"A">>
    /\ response.warnings = <<"Z", "B">>
    /\ Len(geo_lookups) = 3

\* no city after normalisation
NoCities(payload) == normalize_cities(payload.cities) = <<>>
\* a numeric option that is text, or a dpi that is no finite number
MalformedOption(payload) ==
    \/ payload.dpi.kind \in {"text", "infinite"}
    \/ payload.line_width.kind = "text"
    \/ payload.point_size.kind = "text"
    \/ payload.signature_scale.kind = "text"

\* C19: a request with no cities or with a malformed numeric option is answered by either
\* handler with a structured error 400; no geocoder lookup is made, no map is rendered,
\* no file is written and the override store is left as it was.
C19_MalformedRequestRejected ==
    [][(RequestStep /\ (NoCities(request'.payload) \/ MalformedOption(request'.payload))) =>
         /\ response'.structured
         /\ ~response'.success
         /\ response'.status = 400
         /\ response'.error # NoneStr
         /\ geo_lookups' = <<>>
         /\ renders' = renders
         /\ saved_files' = saved_files
         /\ store' = store]_vars

ResponseLabels == response.map.labels
SamePlace(l, m) ==
    /\ l.name = m.name
    /\ l.x_rel = m.x_rel /\ l.y_rel = m.y_rel
    /\ l.anchor_lon = m.anchor_lon /\ l.anchor_lat = m.anchor_lat
    /\ l.dx = m.dx /\ l.dy = m.dy

\* the labels of the last successful response are submitted to apply_labels with the same
\* form and hidden names, the lookups give the same route, and every one of them is in
\* the store afterwards
PersistStep ==
    /\ RequestStep
    /\ response.success
    /\ request'.handler = "apply_labels"
    /\ request'.payload = request.payload
    /\ request'.hidden_labels = request.hidden_labels
    /\ geo_lookups' = geo_lookups
    /\ request'.labels = LabelsOf(ResponseLabels)
    /\ \A k \in 1..Len(ResponseLabels) :
         /\ ResponseLabels[k].name \in DOMAIN load_overrides(store')
         /\ load_overrides(store')[ResponseLabels[k].name]
              = [dx |-> ResponseLabels[k].dx, dy |-> ResponseLabels[k].dy]

\* C20: when the labels a render returned are stored with set_override and the same route
\* is rendered again, the new result has the same labels at the same positions with the
\* same dx and dy, every one of them locked; a result whose labels were all locked
\* already is returned unchanged in its labels.
C20_PersistIsFixedPoint ==
    [][PersistStep =>
         /\ response'.success
         /\ Len(response'.map.labels) = Len(ResponseLabels)
         /\ \A k \in 1..Len(ResponseLabels) :
              /\ SamePlace(response'.map.labels[k], ResponseLabels[k])
              /\ response'.map.labels[k].locked
         /\ (\A k \in 1..Len(ResponseLabels) : ResponseLabels[k].locked)
              => response'.map.labels = ResponseLabels
         /\ response'.map.bounds = response.map.bounds]_vars

\* the second request stored the two labels the first response returned, one of them
\* moved off its default place, and both came back locked
C20_Witness ==
    /\ request.n = 2
    /\ request.handler = "apply_labels"
    /\ response.success
    /\ store_writable
    /\ Len(ResponseLabels) = 2
    /\ request.labels = LabelsOf(ResponseLabels)
    /\ \A k \in 1..2 : ResponseLabels[k].locked /\ ResponseLabels[k].dy # 0
    /\ \E k \in 1..2 : ResponseLabels[k].dx # 0
    /\ \E k \in 1..2 : ResponseLabels[k].dx = 0

(***************************************************************************)
(* Properties of the samples of _build_curve                               *)
(***************************************************************************)
StartSample == VMul(SampleDen, curve_call.start)
EndSample == VMul(SampleDen, curve_call.end)
FiftySamples ==
    /\ Len(curve.points) = Samples
    /\ curve.points[1] = StartSample
    /\ curve.points[Samples] = EndSample

\* end - start is within the tolerance of np.allclose in both components
WithinTolerance ==
    Abs(Direction[1]) <= AllcloseAtol /\ Abs(Direction[2]) <= AllcloseAtol

\* C21 as stated: start = end gives exactly the two points [start, end]; distinct points
\* give 50 samples from start to end.
C21_TwoPointsOnlyWhenEqual ==
    CurveBuilt =>
        /\ curve_call.start = curve_call.end => curve.points = <<StartSample, EndSample>>
        /\ curve_call.start # curve_call.end => FiftySamples

\* C21 amended: when both components of end - start are within 1e-8 of 0, which
\* includes start = end, the result is exactly the two points [start, end], unmodified;
\* otherwise it is 50 samples whose first is start and whose last is end; both for
\* every occurrence index, bundle size and curve strength.
C21_TwoPointsWithinTolerance ==
    CurveBuilt =>
        /\ WithinTolerance => curve.points = <<StartSample, EndSample>>
        /\ ~WithinTolerance => FiftySamples

\* the last curve of a bundle of three between points two tolerances apart
C21_Witness ==
    /\ CurveBuilt
    /\ curve_call.total_occurrences = 3
    /\ curve_call.occurrence_idx = 2
    /\ Direction = <<2, -1>>
    /\ Len(curve.points) = Samples
    /\ curve.points[2] # curve.points[1]

InitRace ==
    /\ RenderIdle /\ NoAssets /\ CurveIdle /\ PlaceIdle /\ NoRender /\ WebIdle
    /\ store \in StoreChoices
    /\ store_writable \in BOOLEAN
    /\ store_log = 0
    /\ last_op = NoOp
    /\ \E c1 \in StoreCities, c2 \in StoreCities, d1 \in Deltas, d2 \in Deltas :
         callers = [initial |-> store,
                    procs |-> <<Caller(c1, d1, d1 + 1), Caller(c2, d2, d2 + 2)>>,
                    saves |-> <<>>]
    /\ sig_call = NoSigCall
    /\ sig_box = NoBox
    /\ geocoding = NoGeocoding
    /\ storage = NoStorage

NextRace == CallerLoad \/ CallerSave

SpecRace == InitRace /\ [][NextRace]_vars

(***************************************************************************)
(* Properties of concurrent override updates                               *)
(***************************************************************************)
BothDone == Len(callers.procs) = 2 /\ \A c \in 1..2 : callers.procs[c].pc = "done"
\* the file after the call of caller a alone, and after a's call followed by b's
AfterOne(a) ==
    set_override(callers.initial, store_writable, callers.procs[a].city,
                 callers.procs[a].dx, callers.procs[a].dy).store
AfterBoth(a, b) ==
    set_override(AfterOne(a), store_writable, callers.procs[b].city,
                 callers.procs[b].dx, callers.procs[b].dy).store

InitGeocoder ==
    /\ RenderIdle /\ NoAssets /\ CurveIdle /\ PlaceIdle /\ NoRender /\ AppIdle
    /\ \E name \in GeoNames :
         geocoding = [NoGeocoding EXCEPT !.pc = "start", !.city_name = name]
    /\ sig_call = NoSigCall
    /\ sig_box = NoBox
    /\ callers = NoCallers
    /\ storage = NoStorage

NextGeocoder == GetCoordinates \/ GeocodeQuery

SpecGeocoder == InitGeocoder /\ [][NextGeocoder]_vars

(***************************************************************************)
(* Properties of geocoder lookups                                          *)
(***************************************************************************)
Lookups == geocoding.lookups
LookupsOf(query) == {i \in 1..Len(Lookups) : Lookups[i].query = query}
\* the position of a query among the candidates
CandidateIdx(query) ==
    CHOOSE i \in 1..Len(geocoding.candidates) : geocoding.candidates[i] = query

\* C29: a query is looked up at most retry_attempts times, a lookup of the same query
\* follows only a lookup that raised, and nothing follows a lookup that found a location;
\* there are at most three candidates, all distinct, tried in their order without
\* a gap; the finished call returns the location of the lookup that found one, and
\* None exactly when no lookup found one
C29_LookupsBoundedOrdered ==
    /\ Len(geocoding.candidates) <= 3
    /\ \A i, j \in 1..Len(geocoding.candidates) :
          geocoding.candidates[i] = geocoding.candidates[j] => i = j
    /\ \A i \in 1..Len(Lookups) :
          /\ \E k \in 1..Len(geocoding.candidates) : geocoding.candidates[k] = Lookups[i].query
          /\ Cardinality(LookupsOf(Lookups[i].query)) <= retry_attempts
          /\ Lookups[i].outcome = "found" => i = Len(Lookups)
          /\ i = 1 => Lookups[i].query = geocoding.candidates[1] /\ Lookups[i].attempt = 1
          /\ i > 1 =>
                IF Lookups[i].query = Lookups[i - 1].query
                THEN /\ Lookups[i - 1].outcome = "raised"
                     /\ Lookups[i].attempt = Lookups[i - 1].attempt + 1
                ELSE /\ CandidateIdx(Lookups[i].query) = CandidateIdx(Lookups[i - 1].query) + 1
                     /\ Lookups[i].attempt = 1
                     /\ \/ Lookups[i - 1].outcome = "not_found"
                        \/ /\ Lookups[i - 1].outcome = "raised"
                           /\ Lookups[i - 1].attempt = retry_attempts
    /\ geocoding.pc = "done" =>
          /\ (geocoding.result = NoNum) <=>
                (\A i \in 1..Len(Lookups) : Lookups[i].outcome # "found")
          /\ geocoding.result # NoNum => geocoding.result = Lookups[Len(Lookups)].location
          /\ geocoding.result = NoNum =>
                \A k \in 1..Len(geocoding.candidates) :
                    LookupsOf(geocoding.candidates[k]) # {}

\* the accented name: the first query raised three times, the second was not found, the
\* third raised once and then gave the location (0.0, 0.0)
C29_Witness ==
    /\ geocoding.pc = "done"
    /\ Len(geocoding.candidates) = 3
    /\ Len(Lookups) = 6
    /\ Lookups[3].outcome = "raised"
    /\ Lookups[4].outcome = "not_found"
    /\ Lookups[5].outcome = "raised"
    /\ geocoding.result = Some(<<0, 0>>)

(***************************************************************************)
(* One StorageManager: built on a route file that is absent, corrupt or    *)
(* left by an earlier run, in a directory that can or cannot be written    *)
(***************************************************************************)
RouteFileChoices ==
    { AbsentRouteFile, CorruptRouteFile, RouteFile(<<>>),
      RouteFile(<<StoredCity("A", Some(52000), Some(21000))>>),
      RouteFile(<<StoredCity("B", NoNum, NoNum), StoredCity("A", Some(52000), Some(21000))>>) }

InitStorage ==
    /\ RenderIdle /\ NoAssets /\ CurveIdle /\ PlaceIdle /\ NoRender /\ AppIdle
    /\ \E file \in RouteFileChoices, writable \in BOOLEAN :
         storage = NewStorage(file, writable)
    /\ sig_call = NoSigCall
    /\ sig_box = NoBox
    /\ callers = NoCallers
    /\ geocoding = NoGeocoding

NextStorage == AddCity \/ UpdateCityCoordinates \/ ClearRoute \/ GetRoute \/ CallerChangesList

SpecStorage == InitStorage /\ [][NextStorage]_vars

(***************************************************************************)
(* Properties of the route storage                                         *)
(***************************************************************************)
RouteNames(rt) == [i \in 1..Len(rt) |-> rt[i].name]
StorageOpDone == storage.ops > 0
\* a step that is update_city_coordinates with an index outside 0..len-1
OutOfRangeUpdate ==
    /\ storage'.ops = storage.ops + 1
    /\ storage'.last.name = "update_city_coordinates"
    /\ ~(0 <= storage'.last.index /\ storage'.last.index < Len(storage.route))
\* a step in which the caller changes the list get_route returned
CallerStep == storage'.last.name = "caller" /\ storage'.returned # storage.returned

C30_WitnessCorrupt ==
    /\ storage.initial = CorruptRouteFile
    /\ storage.last.name = "update_city_coordinates"
    /\ storage.ops = 1
    /\ storage.file = CorruptRouteFile
    /\ storage.route = <<>>

(***************************************************************************)
(* Properties of the relaxation loop                                       *)
(***************************************************************************)
Unlocked == {k \in 1..Len(label_entries) : ~label_entries[k].locked}
\* the squared pixel distance of entry k from its anchor, before and after a step
AnchorDistSq(k) ==
    Dot(VSub(label_entries[k].position_px, label_entries[k].anchor_px),
        VSub(label_entries[k].position_px, label_entries[k].anchor_px))
AnchorDistSqNext(k) ==
    Dot(VSub(label_entries'[k].position_px, label_entries[k].anchor_px),
        VSub(label_entries'[k].position_px, label_entries[k].anchor_px))
MovedInStep(k) == label_entries'[k].position_px # label_entries[k].position_px

C28_WitnessCap ==
    /\ place_pc = "done"
    /\ passes = MaxPasses
    /\ Unlocked # {}

\* a call whose loop was left after its first pass, in which nothing moved
C28_WitnessStill ==
    /\ place_pc = "done"
    /\ passes = 1
    /\ Unlocked # {}

(***************************************************************************)
(* Direct _apply_signature calls: canvases from a thumbnail to an A4 page  *)
(* at 300 dpi, signature images wide, square and tall, scales inside and   *)
(* outside [0.02, 0.5] (the constructor clamps them), the six positions.   *)
(***************************************************************************)
CanvasWidths == {40, 101, 1000, 2480}
CanvasHeights == {60, 1000, 3508}
SignatureSizes == {<<400, 100>>, <<101, 100>>, <<100, 100>>, <<100, 1000>>}
SignatureScales == {5, 20, 180, 333, 500, 900}

InitSignatureBox ==
    /\ RenderIdle /\ NoAssets /\ CurveIdle /\ PlaceIdle /\ AppIdle
    /\ route = <<>>
    /\ label_overrides = NoOverrides
    /\ hidden_labels = {}
    /\ render_labels = FALSE
    /\ output_file = NoneStr
    /\ \E position \in allowed_positions, scale \in SignatureScales :
         gen = NewGenerator("MapGenerator",
                            [signature_enabled |-> TRUE, signature_path |-> "signature.png",
                             signature_position |-> position,
                             signature_scale |-> Some(scale)], NoFiles)
    /\ \E w \in CanvasWidths, h \in CanvasHeights, sig \in SignatureSizes :
         sig_call = [base_width |-> w, base_height |-> h,
                     sig_width |-> sig[1], sig_height |-> sig[2]]
    /\ sig_box = NoBox
    /\ callers = NoCallers
    /\ geocoding = NoGeocoding
    /\ storage = NoStorage

NextSignature == ApplySignature

SpecSignature == InitSignatureBox /\ [][NextSignature]_vars

(***************************************************************************)
(* Properties of the signature box                                         *)
(***************************************************************************)
Stamped == sig_box.made /\ ~sig_box.raised
LeftGap == sig_box.x
RightGap == sig_call.base_width - sig_box.x - sig_box.width
TopGap == sig_box.y
BottomGap == sig_call.base_height - sig_box.y - sig_box.height
\* the canvas leaves room for the box and its margins, so that no clamp acts
Roomy ==
    /\ sig_box.width + 2 * (corner_margin_right + right_shift) <= sig_call.base_width
    /\ sig_box.height + 2 * (corner_margin + bottom_lift) <= sig_call.base_height

\* C23: a centred box has x = floor((canvas width - width) / 2) and left and right gaps
\* that differ by at most 1; a corner box is corner_margin (10 px) from its two adjacent
\* edges, within the 5 px by which the two corner margins of the code differ, and a
\* bottom corner is nearer to the bottom edge than a top corner is to the top edge
C23_SignatureAnchoring ==
    (Stamped /\ Roomy) =>
        /\ HasCenter(gen.signature_position) =>
              /\ sig_box.x = (sig_call.base_width - sig_box.width) \div 2
              /\ Abs(LeftGap - RightGap) <= 1
        /\ is_corner(gen.signature_position) =>
              /\ HasLeft(gen.signature_position) =>
                    Abs(LeftGap - corner_margin) <= corner_margin - corner_margin_right
              /\ HasRight(gen.signature_position) =>
                    Abs(RightGap - corner_margin) <= corner_margin - corner_margin_right
              /\ HasTop(gen.signature_position) => TopGap = corner_margin
              /\ HasBottom(gen.signature_position) => BottomGap < corner_margin

\* C26: the box of a stamped signature lies inside the canvas: 0 <= x, 0 <= y,
\* x + width <= canvas width and y + height <= canvas height
C26_BoxInsideCanvas ==
    Stamped =>
        /\ 0 <= sig_box.x
        /\ 0 <= sig_box.y
        /\ sig_box.x + sig_box.width <= sig_call.base_width
        /\ sig_box.y + sig_box.height <= sig_call.base_height

(***************************************************************************)
(* Properties of failed label requests                                     *)
(***************************************************************************)
\* C25: a request to /api/labels/apply that is answered with a failure leaves the
\* persisted override store as it was before the request
C25_FailedApplyKeepsStore ==
    [][(request'.n = request.n + 1 /\ request'.handler = "apply_labels"
            /\ response'.status >= 400)
        => store' = store]_vars

(***************************************************************************)
(* Properties of the reported paper                                        *)
(***************************************************************************)
\* C27: in a successful answer the paper orientation is "portrait" only when the
\* rendered figure is higher than wide and "landscape" only when it is wider than high
C27_OrientationMatchesCanvas ==
    (response.success /\ response.map.figure # <<>>) =>
        /\ response.paper_orientation = "portrait" =>
              response.map.figure.width_px < response.map.figure.height_px
        /\ response.paper_orientation = "landscape" =>
              response.map.figure.width_px > response.map.figure.height_px

====
